---- MODULE Spec2Model ----
(***************************************************************************)
(* Model of the sunbeam node-bootstrapping CLI: the answer resolution, the *)
(* QuestionBank constructor and the answer file of                         *)
(* commands/question_helper.py, the blocking waits of                      *)
(* snapd/changes.py and commands/juju.py, and the plan runners of the      *)
(* init, bootstrap, reset and configure commands together with the steps   *)
(* they drive.                                                             *)
(***************************************************************************)
EXTENDS Integers, Sequences, FiniteSets, TLC

VARIABLES
    q,          \* the Question instance: its attributes (question_helper.py:34-42)
    calls,      \* one record per ask() call made on q, oldest first
    file,       \* the answer file: absent, or its mode and JSON text
    fsop,       \* the last load_answers / write_answers call: its argument,
                \* the file it found and what it returned
    written,    \* the mapping given to the last write_answers, None if none
    cmd,        \* the command being run: init, bootstrap, reset or configure
    role,       \* the node role (snap config node.role)
    auto,       \* the --auto flag of init
    sudo_user,  \* whether SUDO_USER is set in the environment of init
    plan,       \* the plan the command assembled: a sequence of step classes
    idx,        \* index in plan of the step the runner loop is at
    pc,         \* where the command is: start, is_skip, prompt, run, finish, exit
    st,         \* the attributes of each step object of the plan
    controller, \* JujuHelper.controller: None, connected or unconnected
    world,      \* the external systems the steps observe and change
    log,        \* the step methods the runner has invoked in this command run
    err,        \* the error the command terminated with, None if none
    pass,       \* 1 for the first command run, 2 for the run repeated after it
    wt,         \* the blocking wait in progress: wait_until, get_model_status
                \* or deploy_bundle
    bank        \* the QuestionBank being constructed: arguments and outcome

storeVars == <<file, fsop, written>>

waitVars == <<wt>>

bankVars == <<bank>>

askVars == <<q, calls, file, fsop, written, wt, bank>>

runVars == <<cmd, role, auto, sudo_user, plan, idx, pc, st, controller, world,
             log, err, pass>>

vars == <<q, calls, file, fsop, written, cmd, role, auto, sudo_user, plan, idx, pc, st, controller,
          world, log, err, pass, wt, bank>>

(***************************************************************************)
(* Python values.  A value is modelled by the text of its literal; None,   *)
(* False, 0 and the empty string are the falsy ones.                       *)
(***************************************************************************)
NoneV == "None"

FalsyValues == {"None", "False", "0", ""}

\* bool(v) as Python evaluates it in `if v:`
Truthy(v) == v \notin FalsyValues

\* number of ask() calls made on one Question instance
MaxAsks == 2

\* the values each attribute of the Question is drawn from
PreseedValues == {NoneV, "False", "0", "", "P"}
PreviousValues == {NoneV, "False", "V"}
NewDefaultValues == {NoneV, "", "N"}
DefaultFunctions == {NoneV, "generate_password"}
DefaultValues == {NoneV, "0", "False", "demo"}
\* what a default_function may return
FunctionResults == {"pw1", "pw2"}
\* a line the user types at the prompt: "<enter>" is the empty line, which
\* accepts the offered default
InputLines == {"<enter>", "typed", "vlan"}
\* what the user types at the prompt, line after line: one line, or a line
\* that is none of the choices followed by another line
UserInputs ==
    {<<l>> : l \in InputLines} \cup {<<"typed", l>> : l \in InputLines}

\* the elements of a list
Elements(list) == {list[k] : k \in 1..Len(list)}

\* choices=None
NoChoices == [given |-> FALSE, list |-> <<>>]
\* the choices a Question is constructed with (configure.py:79-83)
ChoiceLists == {NoChoices, [given |-> TRUE, list |-> <<"flat", "vlan">>]}

(***************************************************************************)
(* Question.__init__ followed by the assignments QuestionBank.__init__     *)
(* makes to preseed, previous_answer and accept_defaults.                  *)
(***************************************************************************)
Question(preseed, previous_answer, default_function, default_value, accept_defaults) ==
    [preseed |-> preseed,
     previous_answer |-> previous_answer,
     answer |-> NoneV,
     default_function |-> default_function,
     default_value |-> default_value,
     choices |-> NoChoices,
     accept_defaults |-> accept_defaults]

\* calculate_default with the ask-time default tried before the previous answer
calculate_default_new_first(self, new_default, fr) ==
    IF Truthy(new_default)
    THEN [default |-> new_default, df_calls |-> 0]
    ELSE IF Truthy(self.previous_answer)
    THEN [default |-> self.previous_answer, df_calls |-> 0]
    ELSE IF self.default_function # NoneV
    THEN [default |-> fr, df_calls |-> 1]
    ELSE IF Truthy(self.default_value)
    THEN [default |-> self.default_value, df_calls |-> 0]
    ELSE [default |-> NoneV, df_calls |-> 0]

\* Question.calculate_default: the default and the number of calls of
\* default_function it made; fr is what default_function returns if called
calculate_default(self, new_default, fr) ==
    IF Truthy(self.previous_answer)
    THEN [default |-> self.previous_answer, df_calls |-> 0]
    ELSE IF Truthy(new_default)
    THEN [default |-> new_default, df_calls |-> 0]
    ELSE IF self.default_function # NoneV
    THEN [default |-> fr, df_calls |-> 1]
    ELSE IF Truthy(self.default_value)
    THEN [default |-> self.default_value, df_calls |-> 0]
    ELSE [default |-> NoneV, df_calls |-> 0]

RECURSIVE question_function(_, _, _, _)

\* Prompt.ask as the tests mock it: the first line typed is the answer
\* whatever the choices, the default when the line is empty
question_function_as_mocked(default, choices, lines, rejected) ==
    IF lines = <<>>
    THEN [returned |-> FALSE, value |-> NoneV, line |-> "n/a",
          rejected |-> rejected]
    ELSE [returned |-> TRUE,
          value |-> IF Head(lines) = "<enter>" THEN default ELSE Head(lines),
          line |-> Head(lines), rejected |-> rejected]

\* self.question_function(question, default=default, choices=self.choices),
\* which is Prompt.ask of rich: an empty line returns the default, a line
\* that is not one of the choices is refused and the prompt shown again,
\* any other line is the value; the call has not returned while no line
\* typed so far was taken
question_function(default, choices, lines, rejected) ==
    IF lines = <<>>
    THEN [returned |-> FALSE, value |-> NoneV, line |-> "n/a",
          rejected |-> rejected]
    ELSE IF Head(lines) = "<enter>"
    THEN [returned |-> TRUE, value |-> default, line |-> Head(lines),
          rejected |-> rejected]
    ELSE IF choices.given /\ Head(lines) \notin Elements(choices.list)
    THEN question_function(default, choices, Tail(lines),
                           Append(rejected, Head(lines)))
    ELSE [returned |-> TRUE, value |-> Head(lines), line |-> Head(lines),
          rejected |-> rejected]

\* ask that prompts whatever accept_defaults says
ask_ignoring_accept_defaults(self, new_default, inp, fr) ==
    IF Truthy(self.preseed)
    THEN [answer |-> self.preseed, default |-> NoneV, input |-> "n/a",
          new_default |-> new_default, qf_calls |-> 0, df_calls |-> 0,
          rejected |-> <<>>, returned |-> TRUE]
    ELSE LET d == calculate_default(self, new_default, fr)
             r == question_function(d.default, self.choices, inp, <<>>) IN
         [answer |-> r.value,
          default |-> d.default, input |-> r.line,
          new_default |-> new_default, qf_calls |-> 1,
          df_calls |-> d.df_calls,
          rejected |-> r.rejected, returned |-> r.returned]

\* Question.ask: the answer it returns and the calls it made
ask(self, new_default, inp, fr) ==
    IF Truthy(self.preseed)
    THEN [answer |-> self.preseed, default |-> NoneV, input |-> "n/a",
          new_default |-> new_default, qf_calls |-> 0, df_calls |-> 0,
          rejected |-> <<>>, returned |-> TRUE]
    ELSE LET d == calculate_default(self, new_default, fr) IN
         IF self.accept_defaults
         THEN [answer |-> d.default, default |-> d.default, input |-> "n/a",
               new_default |-> new_default, qf_calls |-> 0,
               df_calls |-> d.df_calls,
               rejected |-> <<>>, returned |-> TRUE]
         ELSE LET r == question_function(d.default, self.choices, inp, <<>>) IN
              [answer |-> r.value,
               default |-> d.default, input |-> r.line,
               new_default |-> new_default, qf_calls |-> 1,
               df_calls |-> d.df_calls,
               rejected |-> r.rejected, returned |-> r.returned]

\* no command is running: the state of the runner part under SpecAsk
NoCommand ==
    /\ cmd = "none" /\ role = "CONVERGED" /\ auto = FALSE /\ sudo_user = FALSE
    /\ plan = <<>> /\ idx = 1 /\ pc = "exit" /\ st = <<>>
    /\ controller = NoneV /\ world = [none |-> TRUE] /\ log = <<>>
    /\ err = NoneV /\ pass = 1

\* the answer file is absent and untouched: the state of the answer store
\* part under the specifications that do not exercise it
StoreIdle ==
    /\ file = [exists |-> FALSE, mode |-> NoneV, text |-> <<>>]
    /\ fsop = [op |-> "none", arg |-> <<>>, before |-> file, result |-> <<>>]
    /\ written = [any |-> FALSE, answers |-> <<>>]

\* no wait is in progress: the state of the polling part under the
\* specifications that do not exercise it
WaitIdle ==
    wt = [fn |-> "none", caller |-> "none", targets |-> <<>>, timeout |-> 0,
          elapsed |-> 0, polls |-> <<>>, apps_status |-> <<>>,
          apps_active |-> {}, units |-> "n/a", pc |-> "idle", exc |-> "none",
          timed_out |-> FALSE, result |-> [type |-> "none", message |-> ""]]

\* no QuestionBank is constructed: the state of the bank part under the
\* specifications that do not exercise it
BankIdle ==
    bank = [pc |-> "idle", questions |-> <<>>, preseed |-> <<>>,
            previous_answers |-> <<>>, accept_defaults |-> FALSE,
            exc |-> "none"]

InitAsk ==
    /\ q \in {[Question(p, v, f, d, a) EXCEPT !.choices = c] :
                p \in PreseedValues, v \in PreviousValues,
                f \in DefaultFunctions, d \in DefaultValues, a \in BOOLEAN,
                c \in ChoiceLists}
    /\ calls = <<>>
    /\ StoreIdle
    /\ NoCommand
    /\ WaitIdle
    /\ BankIdle

\* one call q.ask(new_default) with the user typing the lines of inp if
\* prompted; the call returns once a line was taken
Ask ==
    /\ Len(calls) < MaxAsks
    /\ \E nd \in NewDefaultValues, inp \in UserInputs, fr \in FunctionResults :
         LET r == ask(q, nd, inp, fr) IN
           /\ r.returned
           /\ q' = [q EXCEPT !.answer = r.answer]
           /\ calls' = Append(calls, r)
    /\ UNCHANGED storeVars
    /\ UNCHANGED runVars
    /\ UNCHANGED bankVars
    /\ UNCHANGED waitVars
    /\ UNCHANGED bankVars

NextAsk == Ask

SpecAsk == InitAsk /\ [][NextAsk]_vars

(***************************************************************************)
(* The answer file: load_answers and write_answers.  An answers mapping    *)
(* is a dict of sections, each a dict of keys to scalars; a scalar is its  *)
(* Python type and the text of its literal, a JSON value its JSON type and *)
(* the text json.dumps writes for it.                                      *)
(***************************************************************************)
\* no ask() is made: the state of the question part under the
\* specifications that do not exercise it
QuestionIdle ==
    /\ q = Question(NoneV, NoneV, NoneV, NoneV, FALSE)
    /\ calls = <<>>

PyStr(text) == [t |-> "str", v |-> text]
PyBool(text) == [t |-> "bool", v |-> text]
PyInt(text) == [t |-> "int", v |-> text]
PyNone == [t |-> "NoneType", v |-> "None"]

\* the values the questions of configure.py give each key of each section
AnswerValues ==
    [user |-> [username |-> {PyStr("demo")},
               security_group_rules |-> {PyBool("True"), PyBool("False")}],
     external_network |-> [segmentation_id |-> {PyInt("0")},
                           gateway |-> {PyNone, PyStr("10.20.20.1")}]]

\* the dicts that give some of the keys of section sec a value
SectionDicts(sec) ==
    UNION {[ks -> UNION {AnswerValues[sec][k] : k \in ks}] :
             ks \in SUBSET DOMAIN AnswerValues[sec]}

\* the answers mappings: some of the sections, each with some of its keys
AnswerMappings ==
    UNION {{m \in [secs -> UNION {SectionDicts(sec) : sec \in secs}] :
              \A sec \in secs :
                  \A k \in DOMAIN m[sec] :
                      /\ k \in DOMAIN AnswerValues[sec]
                      /\ m[sec][k] \in AnswerValues[sec][k]} :
             secs \in SUBSET DOMAIN AnswerValues}

\* json.dumps of a scalar written with str() instead of its JSON form
json_value_by_str(v) == [j |-> "string", v |-> v.v]

\* json.dumps of a scalar: the conversion table of the json encoder
json_value(v) ==
    IF v.t = "str" THEN [j |-> "string", v |-> v.v]
    ELSE IF v.t = "int" THEN [j |-> "number", v |-> v.v]
    ELSE IF v.t = "bool"
    THEN IF v.v = "True" THEN [j |-> "true", v |-> "true"]
                         ELSE [j |-> "false", v |-> "false"]
    ELSE [j |-> "null", v |-> "null"]

\* json.loads of a scalar: the conversion table of the json decoder
python_value(jv) ==
    IF jv.j = "string" THEN PyStr(jv.v)
    ELSE IF jv.j = "number" THEN PyInt(jv.v)
    ELSE IF jv.j = "true" THEN PyBool("True")
    ELSE IF jv.j = "false" THEN PyBool("False")
    ELSE PyNone

\* json.dumps(answers): an object of objects of JSON values
json_dumps(answers) ==
    [sec \in DOMAIN answers |->
        [k \in DOMAIN answers[sec] |-> json_value(answers[sec][k])]]

\* json.loads(text)
json_loads(text) ==
    [sec \in DOMAIN text |->
        [k \in DOMAIN text[sec] |-> python_value(text[sec][k])]]

AbsentFile == [exists |-> FALSE, mode |-> NoneV, text |-> <<>>]

\* the file write_answers leaves: opened with "w", mode set to 0o640
WrittenFile(answers) ==
    [exists |-> TRUE, mode |-> "0o640", text |-> json_dumps(answers)]

\* load_answers: {} when the file does not exist, else the parsed JSON
load_answers(f) == IF f.exists THEN json_loads(f.text) ELSE <<>>

\* write_answers(answers): the file is truncated and holds answers alone
write_answers(answers, f) == WrittenFile(answers)

InitStore ==
    /\ file \in {AbsentFile} \cup {WrittenFile(m) : m \in AnswerMappings}
    /\ fsop = [op |-> "none", arg |-> <<>>, before |-> file, result |-> <<>>]
    /\ written = [any |-> FALSE, answers |-> <<>>]
    /\ QuestionIdle
    /\ NoCommand
    /\ WaitIdle
    /\ BankIdle

LoadAnswers ==
    /\ fsop' = [op |-> "load_answers", arg |-> <<>>, before |-> file,
                result |-> load_answers(file)]
    /\ UNCHANGED <<file, written>>
    /\ UNCHANGED <<q, calls>>
    /\ UNCHANGED runVars
    /\ UNCHANGED waitVars
    /\ UNCHANGED bankVars

WriteAnswers ==
    /\ \E answers \in AnswerMappings :
         /\ file' = write_answers(answers, file)
         /\ fsop' = [op |-> "write_answers", arg |-> answers,
                     before |-> file, result |-> <<>>]
         /\ written' = [any |-> TRUE, answers |-> answers]
    /\ UNCHANGED <<q, calls>>
    /\ UNCHANGED runVars
    /\ UNCHANGED waitVars
    /\ UNCHANGED bankVars

NextStore == LoadAnswers \/ WriteAnswers

SpecStore == InitStore /\ [][NextStore]_vars

(***************************************************************************)
(* QuestionBank.__init__ of commands/question_helper.py.  A dict is a      *)
(* function from its keys; an argument left at its default None is not     *)
(* given.                                                                  *)
(***************************************************************************)
\* the questions of the bank (configure.py: user_questions)
BankQuestions ==
    [username |-> Question(NoneV, NoneV, NoneV, "demo", FALSE),
     password |-> Question(NoneV, NoneV, "generate_password", NoneV, FALSE)]

\* the keys a preseed file or an answer file may hold: the keys of the
\* questions and one that names no question of the bank
MappingKeys == {"username", "password", "remote_access"}

MappingValues == {NoneV, "stored"}

\* the preseed and previous_answers arguments: None, or a dict
MappingArguments ==
    {[given |-> FALSE, dict |-> <<>>]}
    \cup {[given |-> TRUE, dict |-> d] :
            d \in UNION {[ks -> MappingValues] : ks \in SUBSET MappingKeys}}

\* `arg or {}`
OrEmptyDict(arg) == IF arg.given THEN arg.dict ELSE <<>>

\* QuestionBank.__init__: the questions as the constructor leaves them, or
\* the exception that leaves it; the loop over preseed tests
\* self.questions.get(key), the loop over previous_answers tests
\* self.previous_answers.get(key) and then indexes self.questions
QuestionBank_init(questions, preseed, previous_answers, accept_defaults) ==
    LET ps == OrEmptyDict(preseed)
        pa == OrEmptyDict(previous_answers)
        q1 == [k \in DOMAIN questions |->
                 [questions[k] EXCEPT !.accept_defaults = accept_defaults]]
        q2 == [k \in DOMAIN q1 |->
                 IF k \in DOMAIN ps
                 THEN [q1[k] EXCEPT !.preseed = ps[k]] ELSE q1[k]]
        assigned == {k \in DOMAIN pa : pa[k] # NoneV}
        q3 == [k \in DOMAIN q2 |->
                 IF k \in assigned
                 THEN [q2[k] EXCEPT !.previous_answer = pa[k]] ELSE q2[k]]
    IN  IF assigned \subseteq DOMAIN questions
        THEN [pc |-> "constructed", questions |-> q3, exc |-> "none"]
        ELSE [pc |-> "raised", questions |-> <<>>, exc |-> "KeyError"]

InitBank ==
    /\ bank \in {[pc |-> "new", questions |-> BankQuestions, preseed |-> ps,
                  previous_answers |-> pa, accept_defaults |-> a,
                  exc |-> "none"] :
                   ps \in MappingArguments, pa \in MappingArguments,
                   a \in BOOLEAN}
    /\ QuestionIdle
    /\ StoreIdle
    /\ NoCommand
    /\ WaitIdle

\* QuestionBank(questions, console, preseed, previous_answers,
\* accept_defaults) is called
NewQuestionBank ==
    /\ bank.pc = "new"
    /\ LET r == QuestionBank_init(bank.questions, bank.preseed,
                                  bank.previous_answers, bank.accept_defaults)
       IN  bank' = [bank EXCEPT !.pc = r.pc, !.questions = r.questions,
                                !.exc = r.exc]
    /\ UNCHANGED <<q, calls>>
    /\ UNCHANGED storeVars
    /\ UNCHANGED runVars
    /\ UNCHANGED waitVars

NextBank == NewQuestionBank

SpecBank == InitBank /\ [][NextBank]_vars

(***************************************************************************)
(* The blocking waits: ChangeService.wait_until of snapd/changes.py, as    *)
(* called by InstallSnapStep.run or on its own, and                        *)
(* JujuHelper.get_model_status, as called by ModelStatusStep.run and       *)
(* DeployBundleStep.is_skip.  Time is counted in seconds since the start   *)
(* of the wait.                                                            *)
(***************************************************************************)
\* the largest timeout a wait is started with
MaxTimeout == 3

\* the longest one iteration of a polling loop takes: the sleep and the
\* request
MaxDelay == 2

\* snapd/changes.py Status: the statuses a poll may find the change in
ChangeStatuses == {"Doing", "Done", "Error"}

\* the status argument of wait_until: one Status, or a list of them
StatusArguments ==
    {[one |-> "Done"], [many |-> <<"Done">>], [many |-> <<"Done", "Error">>]}

\* `if isinstance(status, Status): status = [status]`
StatusList(status) ==
    IF "one" \in DOMAIN status THEN <<status.one>> ELSE status.many

\* the applications of the model whose status get_model_status polls
Applications == {"keystone", "rabbitmq"}

AppStatuses == {"waiting", "active"}

\* the end of wait_until once the loop is left by the clock: the exception
\* that building tgt_msg and raising gives; ", ".join() of members of the
\* Enum Status, which are not strings, raises TypeError
wait_until_timeout(status) ==
    IF Len(status) > 1 THEN "TypeError" ELSE "TimeoutException"

\* a run whose except clause names TimeoutException alone
InstallSnapStep_run_catching_timeout_only(pc_, exc) ==
    IF pc_ = "raised"
    THEN IF exc = "TimeoutException"
         THEN [type |-> "FAILED", message |-> "Error occurred installing snap"]
         ELSE [type |-> "raise", message |-> exc]
    ELSE [type |-> "COMPLETED", message |-> ""]

\* InstallSnapStep.run after the install request: the Result, given how
\* wait_until ended; the bare except catches whatever was raised
InstallSnapStep_run_result(pc_, exc) ==
    IF pc_ = "raised"
    THEN [type |-> "FAILED", message |-> "Error occurred installing snap"]
    ELSE [type |-> "COMPLETED", message |-> ""]

\* ModelStatusStep.run: COMPLETED with one message per application whose
\* status get_model_status returned
ModelStatusStep_run_result(apps_status) ==
    [type |-> "COMPLETED",
     message |-> {<<app, apps_status[app]>> : app \in DOMAIN apps_status}]

\* DeployBundleStep.is_skip: true when get_model_status(model, 0) returned
\* a status for some application and all of them are active
DeployBundleStep_is_skip_result(apps_status) ==
    [type |-> IF /\ DOMAIN apps_status # {}
                 /\ \A app \in DOMAIN apps_status : apps_status[app] = "active"
              THEN "true" ELSE "false",
     message |-> {}]

\* a call wait_until(change, status, timeout) made by caller
WaitUntilCall(caller, status, timeout) ==
    [fn |-> "wait_until", caller |-> caller, targets |-> StatusList(status),
     timeout |-> timeout, elapsed |-> 0, polls |-> <<>>, apps_status |-> <<>>,
     apps_active |-> {}, units |-> "n/a", pc |-> "loop", exc |-> "none",
     timed_out |-> FALSE, result |-> [type |-> "none", message |-> ""]]

\* a call get_model_status(model, timeout) made by caller
GetModelStatusCall(caller, timeout) ==
    [fn |-> "get_model_status", caller |-> caller, targets |-> <<>>,
     timeout |-> timeout, elapsed |-> 0, polls |-> <<>>, apps_status |-> <<>>,
     apps_active |-> {}, units |-> "n/a", pc |-> "loop", exc |-> "none",
     timed_out |-> FALSE, result |-> [type |-> "none", message |-> ""]]

\* DeployBundleStep.run: COMPLETED when deploy_bundle returned True, FAILED
\* when an exception made it return False
DeployBundleStep_run_result(pc_, exc) ==
    IF pc_ = "raised"
    THEN [type |-> "FAILED", message |-> "Error in deploying bundle"]
    ELSE [type |-> "COMPLETED", message |-> ""]

\* a call deploy_bundle(model, bundle) made by caller, once model.deploy has
\* returned: model.block_until(all units active) is given no timeout and
\* reads no clock; units is the workload status of the units of the bundle
DeployBundleCall(caller, units) ==
    [fn |-> "deploy_bundle", caller |-> caller, targets |-> <<>>,
     timeout |-> 0, elapsed |-> 0, polls |-> <<>>, apps_status |-> <<>>,
     apps_active |-> {}, units |-> units, pc |-> "loop", exc |-> "none",
     timed_out |-> FALSE, result |-> [type |-> "none", message |-> ""]]

InitWait ==
    /\ wt \in {WaitUntilCall("none", status, t) :
                 status \in StatusArguments, t \in 0..MaxTimeout}
              \cup
              \* common.py:279-281, with the default timeout
              {WaitUntilCall("InstallSnapStep.run",
                             [many |-> <<"Done", "Error">>], MaxTimeout)}
              \cup
              {GetModelStatusCall("ModelStatusStep.run", t) :
                 t \in 0..MaxTimeout}
              \cup
              {GetModelStatusCall("DeployBundleStep.is_skip", 0)}
              \cup
              {DeployBundleCall("DeployBundleStep.run", u) :
                 u \in {"waiting", "active"}}
    /\ QuestionIdle
    /\ StoreIdle
    /\ NoCommand
    /\ BankIdle

\* one iteration of the loop of wait_until: get_status, the test of the
\* status, the sleep and the reading of the clock
WaitUntilPoll ==
    /\ wt.fn = "wait_until" /\ wt.pc = "loop"
    /\ wt.elapsed < wt.timeout
    /\ \/ \* the request of get_status fails
          wt' = [wt EXCEPT !.pc = "raised", !.exc = "HTTPError"]
       \/ \E status \in ChangeStatuses :
            IF status \in Elements(wt.targets)
            THEN wt' = [wt EXCEPT !.polls = Append(@, status),
                                  !.pc = "returned"]
            ELSE \E d \in 1..MaxDelay :
                   wt' = [wt EXCEPT !.polls = Append(@, status),
                                    !.elapsed = @ + d]
    /\ UNCHANGED <<q, calls>>
    /\ UNCHANGED storeVars
    /\ UNCHANGED runVars
    /\ UNCHANGED bankVars

\* wait_until leaves its loop because the time is over
WaitUntilTimeout ==
    /\ wt.fn = "wait_until" /\ wt.pc = "loop"
    /\ ~(wt.elapsed < wt.timeout)
    /\ wt' = [wt EXCEPT !.timed_out = TRUE, !.pc = "raised",
                        !.exc = wait_until_timeout(wt.targets)]
    /\ UNCHANGED <<q, calls>>
    /\ UNCHANGED storeVars
    /\ UNCHANGED runVars
    /\ UNCHANGED bankVars

\* one iteration of the loop of get_model_status: the sleep of a second,
\* the test of the clock, the status of each application, the two breaks;
\* an exception ends the function with the statuses gathered so far
GetModelStatusPoll ==
    /\ wt.fn = "get_model_status" /\ wt.pc = "loop"
    /\ \/ wt' = [wt EXCEPT !.pc = "returned", !.exc = "logged"]
       \/ \E d \in 1..MaxDelay, found \in SUBSET Applications :
            \E now \in [found -> AppStatuses] :
              LET elapsed == wt.elapsed + d
                  timed_out == elapsed > wt.timeout
                  apps_status == now @@ wt.apps_status
                  apps_active == wt.apps_active
                                   \cup {a \in found : now[a] = "active"}
                  all == Cardinality(Applications) = Cardinality(apps_active)
              IN  wt' = [wt EXCEPT !.elapsed = elapsed,
                                   !.polls = Append(@, "poll"),
                                   !.apps_status = apps_status,
                                   !.apps_active = apps_active,
                                   !.timed_out = ~all /\ timed_out,
                                   !.pc = IF all \/ timed_out
                                          THEN "returned" ELSE "loop"]
    /\ UNCHANGED <<q, calls>>
    /\ UNCHANGED storeVars
    /\ UNCHANGED runVars
    /\ UNCHANGED bankVars

\* the units of the deployed bundle change their workload status, or the
\* connection to the controller is lost: what the control plane does while
\* deploy_bundle waits, which nothing obliges it to do
UnitsChange ==
    /\ wt.fn = "deploy_bundle" /\ wt.pc = "loop"
    /\ wt.units = "waiting"
    /\ \E u \in {"active", "blocked", "connection lost"} :
         wt' = [wt EXCEPT !.units = u]
    /\ UNCHANGED <<q, calls>>
    /\ UNCHANGED storeVars
    /\ UNCHANGED runVars
    /\ UNCHANGED bankVars

\* model.block_until of deploy_bundle: it returns once every unit is
\* active and raises when the connection is lost; while neither is the
\* case it goes on waiting
DeployBundleBlock ==
    /\ wt.fn = "deploy_bundle" /\ wt.pc = "loop"
    /\ wt.units \in {"active", "connection lost"}
    /\ wt' = IF wt.units = "active"
             THEN [wt EXCEPT !.pc = "returned"]
             ELSE [wt EXCEPT !.pc = "raised", !.exc = "JujuError"]
    /\ UNCHANGED <<q, calls>>
    /\ UNCHANGED storeVars
    /\ UNCHANGED runVars
    /\ UNCHANGED bankVars

\* the caller takes the outcome of the wait
CallerReturns ==
    /\ wt.pc \in {"returned", "raised"}
    /\ wt.caller # "none"
    /\ wt' = [wt EXCEPT
                !.pc = "done",
                !.result =
                   CASE wt.caller = "InstallSnapStep.run" ->
                          InstallSnapStep_run_result(wt.pc, wt.exc)
                     [] wt.caller = "ModelStatusStep.run" ->
                          ModelStatusStep_run_result(wt.apps_status)
                     [] wt.caller = "DeployBundleStep.is_skip" ->
                          DeployBundleStep_is_skip_result(wt.apps_status)
                     [] wt.caller = "DeployBundleStep.run" ->
                          DeployBundleStep_run_result(wt.pc, wt.exc)]
    /\ UNCHANGED <<q, calls>>
    /\ UNCHANGED storeVars
    /\ UNCHANGED runVars
    /\ UNCHANGED bankVars

NextWait ==
    \/ WaitUntilPoll
    \/ WaitUntilTimeout
    \/ GetModelStatusPoll
    \/ UnitsChange
    \/ DeployBundleBlock
    \/ CallerReturns

SpecWait == InitWait /\ [][NextWait]_vars

\* the waits with their loops scheduled: a loop that can make its next
\* iteration makes it, a caller that can take the outcome takes it; the
\* control plane is under no such obligation
SpecWaitFair ==
    /\ InitWait /\ [][NextWait]_vars
    /\ WF_vars(WaitUntilPoll) /\ WF_vars(WaitUntilTimeout)
    /\ WF_vars(GetModelStatusPoll) /\ WF_vars(DeployBundleBlock)
    /\ WF_vars(CallerReturns)

(***************************************************************************)
(* The external world of the commands.                                     *)
(***************************************************************************)
\* snap config control-plane.model
ModelName == "openstack"

\* a Python dict is a function from its keys; d.get(k, dflt)
EmptyDict == [k \in {} |-> NoneV]

Get(d, k, dflt) == IF k \in DOMAIN d THEN d[k] ELSE dflt

\* the answer file does not exist
NoStore == "no file"

\* the certificates vault may issue
CertValues == {"cert1", "cert2"}

\* number of times a command is run in a row against the same world
MaxPasses == 2

(* sunbeam/ohv_config/config.py: the configuration sections of the         *)
(* openstack-hypervisor snap with their default values                     *)
IdentityServiceConfig ==
    [auth_url |-> NoneV, username |-> NoneV, password |-> NoneV,
     user_domain_name |-> "service_domain", project_name |-> "services",
     project_domain_name |-> "service_domain", region_name |-> "RegionOne"]

RabbitMQConfig == [url |-> "rabbit://localhost:5672"]

NetworkConfig ==
    [physnet_name |-> "physnet1", external_bridge |-> "br-ex",
     dns_domain |-> "openstack.local", dns_servers |-> "8.8.8.8",
     ovn_sb_connection |-> "tcp:127.0.0.1:6642", ovn_key |-> NoneV,
     ovn_cert |-> NoneV, ovn_cacert |-> NoneV, enable_gateway |-> FALSE,
     ip_address |-> NoneV]

DefaultOHVConfig ==
    [identity |-> IdentityServiceConfig, rabbitmq |-> RabbitMQConfig,
     network |-> NetworkConfig]

\* results of the juju actions the steps run
KeystoneAccount(domain) ==
    ("return-code" :> 0) @@ ("public-endpoint" :> "http://keystone:5000")
    @@ ("username" :> "hostname") @@ ("password" :> "secret")
    @@ ("user-domain-name" :> domain) @@ ("project-name" :> "services")
    @@ ("project-domain-name" :> "service_domain") @@ ("region" :> "RegionOne")

RabbitAccount == ("return-code" :> 0) @@ ("url" :> "rabbit://nova@rabbitmq:5672")

OvnUrl == ("return-code" :> 0) @@ ("url" :> "ssl:ovn-relay:6642")

VaultCertificate(c) ==
    ("return-code" :> 0) @@ ("private-key" :> "key") @@ ("certificate" :> c)
    @@ ("issuing-ca" :> "ca")

\* the result of an action that failed with return code rc
ActionError(rc) == ("return-code" :> rc)

\* a world in which nothing is installed, deployed or configured yet;
\* requests are the calls the current command run has made to the API of
\* the openstack-hypervisor snap, to JujuHelper.run_action and to the answer
\* file, oldest first;
\* invoked are the external commands and calls of the latest call of run
FreshWorld ==
    [juju |-> "absent", microk8s |-> "absent", installs |-> 0,
     change |-> "none", addons |-> {}, in_group |-> FALSE,
     cloud_known |-> TRUE, k8s_controller |-> FALSE, models |-> {},
     apps |-> "none", ohv |-> DefaultOHVConfig,
     keystone |-> KeystoneAccount("service_domain"), rabbit |-> RabbitAccount,
     ovn |-> OvnUrl, vault |-> VaultCertificate("cert1"),
     configure_dir |-> FALSE, store |-> NoStore, tf_init |-> FALSE,
     tf_applied |-> FALSE, requests |-> <<>>, invoked |-> <<>>,
     faults |-> FALSE]

\* a world in which the control plane is deployed and active
DeployedWorld ==
    [FreshWorld EXCEPT !.juju = "ok", !.microk8s = "ok",
                       !.k8s_controller = TRUE, !.models = {ModelName},
                       !.apps = "active"]

\* the worlds a command is started in, before it is known whether their
\* external systems all answer
WorldsOf(c) ==
    CASE c = "init" ->
           {[FreshWorld EXCEPT !.juju = j, !.microk8s = m, !.addons = a] :
              j \in {"absent", "ok", "old", "unparsable", "multiple"},
              m \in {"absent", "ok"},
              a \in {{}, {"dns"},
                     {"ha-cluster", "dns", "hostpath-storage", "metallb"}}}
      [] c = "bootstrap" ->
           {[FreshWorld EXCEPT !.juju = "ok", !.microk8s = "ok",
                               !.cloud_known = k, !.k8s_controller = b,
                               !.models = m, !.apps = a] :
              k \in BOOLEAN, b \in BOOLEAN, m \in {{}, {ModelName}},
              a \in {"none", "waiting", "active"}}
           \cup
           {[DeployedWorld EXCEPT !.keystone = k, !.rabbit = r, !.ovn = o,
                                  !.vault = v] :
              k \in {KeystoneAccount("service_domain"),
                     KeystoneAccount("other_domain"),
                     ActionError(1), ActionError(2)},
              r \in {RabbitAccount, ActionError(1)},
              o \in {OvnUrl, ActionError(2)},
              v \in {VaultCertificate("cert1"), ActionError(1)}}
           \cup
           {[DeployedWorld EXCEPT !.ohv.network.physnet_name = "physnet2",
                                  !.ohv.network.dns_servers = "10.0.0.1"]}
      [] c = "reset" ->
           {[DeployedWorld EXCEPT !.models = m, !.configure_dir = d] :
              m \in {{}, {ModelName}}, d \in BOOLEAN}
      [] c = "configure" ->
           {[DeployedWorld EXCEPT !.keystone = k, !.store = f] :
              k \in {KeystoneAccount("service_domain"), ActionError(1),
                     ActionError(2)},
              f \in {NoStore, "answers"}}

\* the worlds a command is started in
Worlds(c) == {[w EXCEPT !.faults = f] : w \in WorldsOf(c), f \in BOOLEAN}

(***************************************************************************)
(* Steps.  Every method of a step is an operator giving the set of its     *)
(* possible outcomes: what it returned (ret: "true"/"false" for is_skip,   *)
(* "ok" for prompt, the ResultType for run, "raise" when an exception      *)
(* leaves the method), the step's attributes s, the external world w and   *)
(* JujuHelper.controller ctl after the call, and the message of the Result *)
(* or of the exception.  One outcome per way the external calls may go.    *)
(***************************************************************************)
Out(ret, s, w, ctl, msg) ==
    [ret |-> ret, s |-> s, w |-> w, ctl |-> ctl, msg |-> msg]

\* the outcomes that take a failing external call: none in a world whose
\* external systems all answer
Faulty(w, outcomes) == IF w.faults THEN outcomes ELSE {}

\* the world once one more call has been made to the openstack-hypervisor
\* snap, to run_action or to the answer file; config is the argument of an
\* update call
Requested(w, req, config) ==
    [w EXCEPT !.requests = Append(@, [req |-> req, config |-> config])]

\* the world once run has invoked the external command or call op, which
\* succeeded (ok) or failed
Invoked(w, op, ok) ==
    [w EXCEPT !.invoked = Append(@, [op |-> op, ok |-> ok])]

\* str(e) of an exception caught from an external call
ExceptionTexts == {"exception text", ""}

\* self.config = None: the step holds no configuration object
NoConfig == [none |-> TRUE]

\* the attributes a step object holds besides name and description
NewStep ==
    [installed_version |-> NoneV, args |-> NoneV, config |-> NoConfig,
     action_results |-> <<>>]

(* jobs/common.py: BaseStep *)
BaseStep_is_skip(s, w, ctl) == {Out("false", s, w, ctl, "")}

BaseStep_has_prompts(s) == FALSE

BaseStep_prompt(s, w, ctl) == {Out("ok", s, w, ctl, "")}

(* jobs/common.py: InstallSnapStep; snap is "juju" or "microk8s" and       *)
(* w[snap] tells what snapd has installed under that name                  *)
InstallSnapStep_is_skip(snap, s, w, ctl) ==
    Faulty(w, {Out("raise", s, w, ctl, "snapd request failed")})
    \cup
    CASE w[snap] = "absent" ->
           {Out("false", s, w, ctl, "")}
      [] w[snap] = "multiple" ->
           {Out("raise", s, w, ctl, "Only one installed snap is allowed.")}
      [] w[snap] = "ok" ->
           {Out("true", [s EXCEPT !.installed_version = "valid"], w, ctl, "")}
      [] w[snap] = "old" ->
           {Out("raise", [s EXCEPT !.installed_version = "old"], w, ctl,
                "The installed version is too old.")}
      [] w[snap] = "unparsable" ->
           {Out("false", [s EXCEPT !.installed_version = "UNKNOWN_VERSION"],
                w, ctl, "")}

InstallSnapStep_has_prompts(s) ==
    IF s.installed_version = NoneV THEN TRUE
    ELSE IF s.installed_version = "UNKNOWN_VERSION" THEN TRUE
    ELSE FALSE

\* Confirm.ask: the user confirms or declines the installation
InstallSnapStep_prompt(snap, s, w, ctl) ==
    IF s.installed_version = NoneV
    THEN {Out("ok", s, w, ctl, ""),
          Out("raise", s, w, ctl, "snap needs to be installed to continue.")}
    ELSE {Out("ok", s, w, ctl, "")}

\* a run that requests the installation whatever is_skip found
InstallSnapStep_run_installing_always(snap, s, w, ctl) ==
    {Out("COMPLETED", s,
         [Invoked([w EXCEPT !.installs = @ + 1], "snap install", TRUE)
            EXCEPT !.change = "Done", ![snap] = "ok"], ctl, "")}

\* the install request may fail; the change it starts ends Done or Error,
\* or is still in progress when wait_until gives up
InstallSnapStep_run(snap, s, w, ctl) ==
    IF s.installed_version # NoneV
    THEN {Out("COMPLETED", s, w, ctl, "")}
    ELSE LET w1 == [w EXCEPT !.installs = @ + 1]
             ok == Invoked(w1, "snap install", TRUE)
             bad == Invoked(w1, "snap install", FALSE) IN
         {Out("COMPLETED", s, [ok EXCEPT !.change = "Done", ![snap] = "ok"],
              ctl, "")}
         \cup
         Faulty(w,
           {Out("FAILED", s, [bad EXCEPT !.change = "none"],
                ctl, "Error occurred installing snap"),
            Out("FAILED", s, [ok EXCEPT !.change = "Doing"],
                ctl, "Error occurred installing snap"),
            Out("COMPLETED", s, [ok EXCEPT !.change = "Error"], ctl, "")})

(* commands/microk8s.py: BaseCoreMicroK8sEnableStep and its subclasses *)
\* `microk8s status -a addon`: it prints whether the add-on is enabled, or
\* exits non-zero
MicroK8sStatus(addon, w) ==
    {[ok |-> TRUE, enabled |-> addon \in w.addons]}
    \cup Faulty(w, {[ok |-> FALSE, enabled |-> FALSE]})

BaseCoreMicroK8sEnableStep_is_skip(addon, s, w, ctl) ==
    {Out(IF r.ok /\ r.enabled THEN "true" ELSE "false", s, w, ctl, "") :
       r \in MicroK8sStatus(addon, w)}

\* a run that reports COMPLETED whether or not the enable command worked
BaseCoreMicroK8sEnableStep_run_completing_anyway(addon, s, w, ctl) ==
    {Out("COMPLETED", s,
         [Invoked(w, "microk8s enable", TRUE) EXCEPT !.addons = @ \cup {addon}],
         ctl, "")}
    \cup
    Faulty(w, {Out("COMPLETED", s, Invoked(w, "microk8s enable", FALSE), ctl, "")})

\* microk8s enable succeeds, or fails; after a failure with "timed out
\* waiting" (the add-on may or may not come up all the same) run asks
\* is_skip, which queries the status of the add-on
BaseCoreMicroK8sEnableStep_run(addon, s, w, ctl) ==
    LET ok == Invoked(w, "microk8s enable", TRUE)
        bad == Invoked(w, "microk8s enable", FALSE)
        enabled(x) == [x EXCEPT !.addons = @ \cup {addon}] IN
      {Out("COMPLETED", s, enabled(ok), ctl, "")}
      \cup
      Faulty(w, {Out("FAILED", s, bad, ctl, "Error enabling microk8s add-on")})
      \cup
      Faulty(w, UNION {{IF r.ok /\ r.enabled
                        THEN Out("COMPLETED", s,
                                 Invoked(w2, "microk8s status", r.ok), ctl, "")
                        ELSE Out("FAILED", s,
                                 Invoked(w2, "microk8s status", r.ok), ctl,
                                 "Error enabling microk8s add-on") :
                          r \in MicroK8sStatus(addon, w2)} :
                       w2 \in {bad, enabled(bad)}})

\* EnableDNS.prompt and EnableMetalLB.prompt: Prompt.ask with a default
EnableAddon_prompt(s, w, ctl) ==
    {Out("ok", [s EXCEPT !.args = a], w, ctl, "") :
       a \in {"prompt default", "typed"}}

(* commands/microk8s.py: EnableAccessToUser *)
EnableAccessToUser_is_skip(s, w, ctl) == {Out("false", s, w, ctl, "")}

EnableAccessToUser_run(s, w, ctl) ==
    {Out("COMPLETED", s,
         [Invoked(w, "usermod", TRUE) EXCEPT !.in_group = TRUE], ctl, "")}
    \cup
    Faulty(w, {Out("FAILED", s, Invoked(w, "usermod", FALSE), ctl,
                   "Adding user to snap_microk8s group failed")})

(***************************************************************************)
(* commands/juju.py: JujuHelper.  controller is None until a method        *)
(* creates the Controller object; the object stays in place when its       *)
(* connect() fails ("unconnected").                                        *)
(***************************************************************************)
\* the `if not self.controller: ... connect()` prologue of every method:
\* whether connect() was attempted, whether the method went on to issue its
\* operation on self.controller (it does unless connect() raised), whether
\* that controller is connected (ok), and self.controller afterwards
JujuHelper_connect(w, ctl) ==
    IF ctl = NoneV
    THEN {[ok |-> TRUE, ctl |-> "connected", attempted |-> TRUE,
           issued |-> TRUE]}
         \cup Faulty(w, {[ok |-> FALSE, ctl |-> "unconnected",
                          attempted |-> TRUE, issued |-> FALSE]})
    ELSE {[ok |-> ctl = "connected", ctl |-> ctl, attempted |-> FALSE,
           issued |-> TRUE]}

\* get_models: the models of the controller, [] on any exception
JujuHelper_get_models(w, ctl) ==
    UNION {IF c.ok
           THEN {[models |-> w.models, ctl |-> c.ctl]}
                \cup Faulty(w, {[models |-> {}, ctl |-> c.ctl]})
           ELSE {[models |-> {}, ctl |-> c.ctl]} :
           c \in JujuHelper_connect(w, ctl)}

\* add_model, deploy_bundle, destroy_model: True, or False on any exception
JujuHelper_call(w, ctl) ==
    UNION {IF c.ok
           THEN {[ok |-> TRUE, ctl |-> c.ctl]}
                \cup Faulty(w, {[ok |-> FALSE, ctl |-> c.ctl]})
           ELSE {[ok |-> FALSE, ctl |-> c.ctl]} :
           c \in JujuHelper_connect(w, ctl)}

\* get_model_status(model, 0): one poll of the applications of the model;
\* an empty mapping on any exception
JujuHelper_get_model_status(w, ctl) ==
    UNION {IF c.ok /\ ModelName \in w.models
           THEN {[status |-> w.apps, ctl |-> c.ctl]}
           ELSE {[status |-> "none", ctl |-> c.ctl]} :
           c \in JujuHelper_connect(w, ctl)}

\* run_action: the results of the action, {} on any exception or when the
\* application has no leader unit; answer is what the action would return
JujuHelper_run_action(w, answer, ctl) ==
    UNION {IF c.ok
           THEN {[result |-> answer, ctl |-> c.ctl]}
                \cup Faulty(w, {[result |-> EmptyDict, ctl |-> c.ctl]})
           ELSE {[result |-> EmptyDict, ctl |-> c.ctl]} :
           c \in JujuHelper_connect(w, ctl)}

\* disconnect_controller: self.controller.disconnect()
JujuHelper_disconnect_controller(ctl) ==
    IF ctl = NoneV
    THEN [raised |-> TRUE, ctl |-> ctl,
          msg |-> "AttributeError: 'NoneType' object has no attribute 'disconnect'"]
    ELSE [raised |-> FALSE, ctl |-> "disconnected", msg |-> ""]

(* commands/juju.py: BootstrapJujuStep *)
BootstrapJujuStep_is_skip(s, w, ctl) ==
    {Out(IF w.k8s_controller THEN "true" ELSE "false", s, w, ctl, "")}
    \cup
    Faulty(w, {\* juju clouds / juju controllers exits non-zero
               Out("false", s, w, ctl, ""),
               \* the output of the command is not JSON
               Out("raise", s, w, ctl, "JSONDecodeError")})

BootstrapJujuStep_run(s, w, ctl) ==
    LET w1 == Invoked(w, "juju clouds", TRUE) IN
      Faulty(w, {Out("FAILED", s, Invoked(w, "juju clouds", FALSE), ctl,
                     "CalledProcessError"),
                 Out("raise", s, w1, ctl, "JSONDecodeError")})
      \cup
      IF ~w.cloud_known
      THEN {Out("FAILED", s, w1, ctl, "Unable to bootstrap to microk8s")}
      ELSE {Out("COMPLETED", s,
                [Invoked(w1, "juju bootstrap", TRUE)
                   EXCEPT !.k8s_controller = TRUE], ctl, "")}
           \cup
           Faulty(w, {Out("FAILED", s, Invoked(w1, "juju bootstrap", FALSE),
                          ctl, "CalledProcessError")})

(* commands/juju.py: CreateModelStep *)
CreateModelStep_is_skip(s, w, ctl) ==
    {Out(IF ModelName \in r.models THEN "true" ELSE "false", s, w, r.ctl, "") :
       r \in JujuHelper_get_models(w, ctl)}

CreateModelStep_run(s, w, ctl) ==
    {IF r.ok
     THEN Out("COMPLETED", s,
              [Invoked(w, "add_model", TRUE)
                 EXCEPT !.models = @ \cup {ModelName}], r.ctl, "")
     ELSE Out("FAILED", s, Invoked(w, "add_model", FALSE), r.ctl,
              "Error in creation of model") :
       r \in JujuHelper_call(w, ctl)}

(* commands/juju.py: DeployBundleStep *)
DeployBundleStep_is_skip(s, w, ctl) ==
    {Out(IF r.status = "active" THEN "true" ELSE "false", s, w, r.ctl, "") :
       r \in JujuHelper_get_model_status(w, ctl)}

DeployBundleStep_run(s, w, ctl) ==
    {IF r.ok /\ ModelName \in w.models
     THEN Out("COMPLETED", s,
              [Invoked(w, "deploy_bundle", TRUE) EXCEPT !.apps = "active"],
              r.ctl, "")
     ELSE Out("FAILED", s, Invoked(w, "deploy_bundle", FALSE), r.ctl,
              "Error in deploying bundle") :
       r \in JujuHelper_call(w, ctl)}

(* commands/juju.py: DestroyModelStep *)
DestroyModelStep_is_skip(s, w, ctl) ==
    {Out(IF ModelName \in r.models THEN "false" ELSE "true", s, w, r.ctl, "") :
       r \in JujuHelper_get_models(w, ctl)}

DestroyModelStep_run(s, w, ctl) ==
    {IF r.ok
     THEN Out("COMPLETED", s,
              [Invoked(w, "destroy_model", TRUE)
                 EXCEPT !.models = @ \ {ModelName}, !.apps = "none"], r.ctl, "")
     ELSE Out("FAILED", s, Invoked(w, "destroy_model", FALSE), r.ctl,
              "Error in destroying model") :
       r \in JujuHelper_call(w, ctl)}

(* commands/reset.py: PurgeTerraformStateStep *)
PurgeTerraformStateStep_run(s, w, ctl) ==
    {Out("COMPLETED", s,
         [w EXCEPT !.configure_dir = FALSE, !.store = NoStore], ctl, "")}

(* commands/ohv.py: ResetConfigStep *)
ResetConfigStep_is_skip(s, w, ctl) == {Out("false", s, w, ctl, "")}

ResetConfigStep_run(s, w, ctl) ==
    LET w1 == Requested(w, "reset_config", NoneV)
        ok == Invoked(w1, "reset_config", TRUE)
        bad == Invoked(w1, "reset_config", FALSE) IN
      {Out("COMPLETED", s, [ok EXCEPT !.ohv = DefaultOHVConfig], ctl, "")}
      \cup
      Faulty(w, {Out("FAILED", s, bad, ctl, t) : t \in ExceptionTexts})

(***************************************************************************)
(* commands/ohv.py: the steps that reconcile the configuration of the      *)
(* openstack-hypervisor snap (w.ohv) with the results of juju actions.     *)
(* w.keystone, w.rabbit, w.ovn and w.vault are what the actions return     *)
(* when they can be run.                                                   *)
(***************************************************************************)
\* action_result.get("return-code", 1) == 1 for some recorded result
ActionReturnedError(action_results) ==
    \E i \in 1..Len(action_results) : Get(action_results[i], "return-code", 1) = 1

\* an is_skip that compares the domains, the project and the region only
IdentityStaged_comparing_names_only(c, ar) ==
    LET user_domain_name == Get(ar, "user-domain-name", NoneV)
        project_name == Get(ar, "project-name", NoneV)
        project_domain_name == Get(ar, "project-domain-name", NoneV)
        region_name == Get(ar, "region", NoneV)
    IN  [config |-> [c EXCEPT !.auth_url = Get(ar, "public-endpoint", NoneV),
                              !.username = Get(ar, "username", NoneV),
                              !.password = Get(ar, "password", NoneV)],
         skip |-> /\ c.user_domain_name = user_domain_name
                  /\ c.project_name = project_name
                  /\ c.project_domain_name = project_domain_name
                  /\ c.region_name = region_name]

\* the identity fields as is_skip leaves them in self.config
IdentityStaged(c, ar) ==
    LET auth_url == Get(ar, "public-endpoint", NoneV)
        username == Get(ar, "username", NoneV)
        password == Get(ar, "password", NoneV)
        user_domain_name == Get(ar, "user-domain-name", NoneV)
        project_name == Get(ar, "project-name", NoneV)
        project_domain_name == Get(ar, "project-domain-name", NoneV)
        region_name == Get(ar, "region", NoneV)
        c1 == IF c.auth_url # auth_url THEN [c EXCEPT !.auth_url = auth_url] ELSE c
        c2 == IF c1.username # username THEN [c1 EXCEPT !.username = username] ELSE c1
        c3 == IF c2.password # password THEN [c2 EXCEPT !.password = password] ELSE c2
        c4 == IF c3.user_domain_name # user_domain_name
              THEN [c3 EXCEPT !.username = user_domain_name] ELSE c3
        c5 == IF c4.project_name # project_name
              THEN [c4 EXCEPT !.project_name = project_name] ELSE c4
        c6 == IF c5.project_domain_name # project_domain_name
              THEN [c5 EXCEPT !.project_name = project_domain_name] ELSE c5
        c7 == IF c6.region_name # region_name
              THEN [c6 EXCEPT !.region_name = region_name] ELSE c6
    IN  [config |-> c7,
         skip |-> /\ c.auth_url = auth_url
                  /\ c1.username = username
                  /\ c2.password = password
                  /\ c3.user_domain_name = user_domain_name
                  /\ c4.project_name = project_name
                  /\ c5.project_domain_name = project_domain_name
                  /\ c6.region_name = region_name]

UpdateIdentityServiceConfigStep_is_skip(s, w, ctl) ==
    LET w1 == Requested(w, "get_identity_config", NoneV)
        w2 == Requested(w1, "keystone get-service-account", NoneV) IN
      Faulty(w, {Out("raise", s, w1, ctl, "get_identity_config failed")})
      \cup
      {LET staged == IdentityStaged(w.ohv.identity, r.result) IN
         Out(IF staged.skip THEN "true" ELSE "false",
             [s EXCEPT !.config = staged.config,
                       !.action_results = Append(@, r.result)],
             w2, r.ctl, "") :
         r \in JujuHelper_run_action(w, w.keystone, ctl)}

\* a run that fetches the configuration and the service account again
UpdateIdentityServiceConfigStep_run_fetching_again(s, w, ctl) ==
    LET w1 == Requested(w, "get_identity_config", NoneV)
        w2 == Requested(w1, "keystone get-service-account", NoneV)
        w3 == Requested(w2, "update_identity_config", s.config) IN
      IF ActionReturnedError(s.action_results)
      THEN {Out("FAILED", s, w2, ctl, "Juju action returned error")}
      ELSE {Out("COMPLETED", s,
                [Invoked(w3, "update_identity_config", TRUE)
                   EXCEPT !.ohv.identity = s.config], ctl, "")}

UpdateIdentityServiceConfigStep_run(s, w, ctl) ==
    IF ActionReturnedError(s.action_results)
    THEN {Out("FAILED", s, w, ctl, "Juju action returned error")}
    ELSE LET w1 == Requested(w, "update_identity_config", s.config)
             ok == Invoked(w1, "update_identity_config", TRUE)
             bad == Invoked(w1, "update_identity_config", FALSE) IN
           {Out("COMPLETED", s, [ok EXCEPT !.ohv.identity = s.config], ctl, "")}
           \cup Faulty(w, {Out("FAILED", s, bad, ctl, t) : t \in ExceptionTexts})

UpdateRabbitMQConfigStep_is_skip(s, w, ctl) ==
    LET w1 == Requested(w, "get_rabbitmq_config", NoneV)
        w2 == Requested(w1, "rabbitmq get-service-account", NoneV) IN
      Faulty(w, {Out("raise", s, w1, ctl, "get_rabbitmq_config failed")})
      \cup
      {LET c == w.ohv.rabbitmq
           url == Get(r.result, "url", NoneV) IN
         Out(IF c.url = url THEN "true" ELSE "false",
             [s EXCEPT !.config = IF c.url # url THEN [c EXCEPT !.url = url] ELSE c,
                       !.action_results = Append(@, r.result)],
             w2, r.ctl, "") :
         r \in JujuHelper_run_action(w, w.rabbit, ctl)}

\* a run without the try/except around the update call
UpdateRabbitMQConfigStep_run_without_except(s, w, ctl) ==
    IF ActionReturnedError(s.action_results)
    THEN {Out("FAILED", s, w, ctl, "Juju action returned error")}
    ELSE LET w1 == Requested(w, "update_rabbitmq_config", s.config)
             ok == Invoked(w1, "update_rabbitmq_config", TRUE)
             bad == Invoked(w1, "update_rabbitmq_config", FALSE) IN
           {Out("COMPLETED", s, [ok EXCEPT !.ohv.rabbitmq = s.config], ctl, "")}
           \cup Faulty(w, {Out("raise", s, bad, ctl, t) : t \in ExceptionTexts})

UpdateRabbitMQConfigStep_run(s, w, ctl) ==
    IF ActionReturnedError(s.action_results)
    THEN {Out("FAILED", s, w, ctl, "Juju action returned error")}
    ELSE LET w1 == Requested(w, "update_rabbitmq_config", s.config)
             ok == Invoked(w1, "update_rabbitmq_config", TRUE)
             bad == Invoked(w1, "update_rabbitmq_config", FALSE) IN
           {Out("COMPLETED", s, [ok EXCEPT !.ohv.rabbitmq = s.config], ctl, "")}
           \cup Faulty(w, {Out("FAILED", s, bad, ctl, t) : t \in ExceptionTexts})

\* utils.encode_tls: the base64 text of a key or certificate
encode_tls(cert_or_key) ==
    CASE cert_or_key = "key" -> "b64(key)"
      [] cert_or_key = "cert1" -> "b64(cert1)"
      [] cert_or_key = "cert2" -> "b64(cert2)"
      [] cert_or_key = "ca" -> "b64(ca)"
      [] OTHER -> cert_or_key

\* an is_skip that stages its values in a new NetworkConfig object
NetworkStaged_in_new_object(c, ovn, cert) ==
    LET url == Get(ovn, "url", NoneV)
        ovn_key == encode_tls(cert["private-key"])
        ovn_cert == encode_tls(cert["certificate"])
        ovn_cacert == encode_tls(cert["issuing-ca"])
    IN  [config |-> [NetworkConfig EXCEPT !.ovn_sb_connection = url,
                                          !.ovn_key = ovn_key,
                                          !.ovn_cert = ovn_cert,
                                          !.ovn_cacert = ovn_cacert],
         skip |-> /\ c.ovn_sb_connection = url
                  /\ c.ovn_key = ovn_key
                  /\ c.ovn_cert = ovn_cert
                  /\ c.ovn_cacert = ovn_cacert]

\* the network fields as is_skip leaves them, given the results of the
\* ovn-relay action and of the vault action
NetworkStaged(c, ovn, cert) ==
    LET url == Get(ovn, "url", NoneV)
        ovn_key == encode_tls(cert["private-key"])
        ovn_cert == encode_tls(cert["certificate"])
        ovn_cacert == encode_tls(cert["issuing-ca"])
        c1 == IF c.ovn_sb_connection # url
              THEN [c EXCEPT !.ovn_sb_connection = url] ELSE c
        c2 == IF c1.ovn_key # ovn_key THEN [c1 EXCEPT !.ovn_key = ovn_key] ELSE c1
        c3 == IF c2.ovn_cert # ovn_cert THEN [c2 EXCEPT !.ovn_cert = ovn_cert] ELSE c2
        c4 == IF c3.ovn_cacert # ovn_cacert
              THEN [c3 EXCEPT !.ovn_cacert = ovn_cacert] ELSE c3
    IN  [config |-> c4,
         skip |-> /\ c.ovn_sb_connection = url
                  /\ c1.ovn_key = ovn_key
                  /\ c2.ovn_cert = ovn_cert
                  /\ c3.ovn_cacert = ovn_cacert]

\* what vault's generate-certificate answers: the certificate issued last
\* or a newly issued one, which becomes the last issued
VaultAnswers(w) ==
    IF DOMAIN w.vault = {"return-code"}
    THEN {w.vault}
    ELSE {[w.vault EXCEPT !["certificate"] = c] : c \in CertValues}

\* the vault result lacking a key or certificate makes is_skip raise
\* KeyError, after it has recorded both results and staged the url
UpdateNetworkConfigStep_is_skip(s, w, ctl) ==
    LET w1 == Requested(w, "get_network_config", NoneV)
        w2 == Requested(w1, "ovn-relay get-southbound-db-url", NoneV)
        w3 == Requested(w2, "vault generate-certificate", NoneV) IN
    Faulty(w, {Out("raise", s, w1, ctl, "get_network_config failed")})
    \cup
    UNION {UNION {UNION {
        IF {"private-key", "certificate", "issuing-ca"} \subseteq DOMAIN r2.result
        THEN LET staged == NetworkStaged(w.ohv.network, r1.result, r2.result) IN
               {Out(IF staged.skip THEN "true" ELSE "false",
                    [s EXCEPT !.config = staged.config,
                              !.action_results = @ \o <<r1.result, r2.result>>],
                    [w3 EXCEPT !.vault = va], r2.ctl, "")}
        ELSE LET c == w.ohv.network
                 url == Get(r1.result, "url", NoneV) IN
               {Out("raise",
                    [s EXCEPT !.config = IF c.ovn_sb_connection # url
                                         THEN [c EXCEPT !.ovn_sb_connection = url]
                                         ELSE c,
                              !.action_results = @ \o <<r1.result, r2.result>>],
                    w3, r2.ctl, "KeyError: 'private-key'")} :
          r2 \in JujuHelper_run_action(w, va, r1.ctl)} :
          va \in VaultAnswers(w)} :
          r1 \in JujuHelper_run_action(w, w.ovn, ctl)}

UpdateNetworkConfigStep_run(s, w, ctl) ==
    IF ActionReturnedError(s.action_results)
    THEN {Out("FAILED", s, w, ctl, "Juju action returned error")}
    ELSE LET w1 == Requested(w, "update_network_config", s.config)
             ok == Invoked(w1, "update_network_config", TRUE)
             bad == Invoked(w1, "update_network_config", FALSE) IN
           {Out("COMPLETED", s, [ok EXCEPT !.ohv.network = s.config], ctl, "")}
           \cup Faulty(w, {Out("FAILED", s, bad, ctl, t) : t \in ExceptionTexts})

(* commands/ohv.py: UpdateExternalNetworkConfigStep *)
UpdateExternalNetworkConfigStep_has_prompts(s) == TRUE

\* prompt reads the network configuration and the answer file and stages
\* the bridge address and the physnet name; a failing read, a missing answer
\* file or a rejected attribute leave it by an exception
UpdateExternalNetworkConfigStep_prompt(s, w, ctl) ==
    LET w1 == Requested(w, "get_network_config", NoneV)
        w2 == Requested(w1, "open answer file", NoneV)
        w3 == Requested(w2, "load_answers", NoneV) IN
      Faulty(w, {Out("raise", s, w1, ctl, "prompt failed")})
      \cup
      IF w.store = NoStore
      THEN {Out("raise", [s EXCEPT !.config = w.ohv.network], w2, ctl,
                "FileNotFoundError")}
      ELSE {Out("ok",
                [s EXCEPT !.config =
                   [w.ohv.network EXCEPT !.physnet_name = "physnet of answers"]],
                w3, ctl, "")}

\* update_network_config(self.config) inside try/except Exception; with
\* the None that config is before prompt, config.json() raises
\* AttributeError before any request is made
UpdateExternalNetworkConfigStep_run(s, w, ctl) ==
    IF s.config = NoConfig
    THEN {Out("FAILED", s, w, ctl,
              "'NoneType' object has no attribute 'json'")}
    ELSE
    LET w1 == Requested(w, "update_network_config", s.config)
        ok == Invoked(w1, "update_network_config", TRUE)
        bad == Invoked(w1, "update_network_config", FALSE) IN
      {Out("COMPLETED", s, [ok EXCEPT !.ohv.network = s.config], ctl, "")}
      \cup Faulty(w, {Out("FAILED", s, bad, ctl, t) : t \in ExceptionTexts})

(* commands/configure.py: the terraform steps *)
InitializeTerraformStep_is_skip(s, w, ctl) == {Out("false", s, w, ctl, "")}

InitializeTerraformStep_run(s, w, ctl) ==
    {Out("COMPLETED", s,
         [Invoked(w, "terraform init", TRUE) EXCEPT !.tf_init = TRUE], ctl, "")}
    \cup Faulty(w, {Out("FAILED", s, Invoked(w, "terraform init", FALSE), ctl,
                        "CalledProcessError")})

ConfigureCloudStep_is_skip(s, w, ctl) == {Out("false", s, w, ctl, "")}

ConfigureCloudStep_has_prompts(s) == TRUE

\* prompt reads the preseed file if one was given, which may raise, and
\* then calls UserQuestions(console=..., preseed=..., previous_answers=...):
\* QuestionBank.__init__ requires the argument questions, so the call
\* raises TypeError before any question is asked or any answer written
ConfigureCloudStep_prompt(s, w, ctl) ==
    {Out("raise", s, w, ctl,
         "TypeError: missing 1 required positional argument: 'questions'")}
    \cup Faulty(w, {Out("raise", s, w, ctl, "FileNotFoundError")})

ConfigureCloudStep_run(s, w, ctl) ==
    {Out("COMPLETED", s,
         [Invoked(w, "terraform apply", TRUE) EXCEPT !.tf_applied = TRUE],
         ctl, "")}
    \cup Faulty(w, {Out("FAILED", s, Invoked(w, "terraform apply", FALSE), ctl,
                        "CalledProcessError")})

UserOpenRCStep_is_skip(s, w, ctl) == {Out("false", s, w, ctl, "")}

UserOpenRCStep_run(s, w, ctl) ==
    {Out("COMPLETED", s, Invoked(w, "terraform output", TRUE), ctl, "")}
    \cup Faulty(w, {Out("FAILED", s, Invoked(w, "terraform output", FALSE),
                        ctl, "CalledProcessError"),
                    Out("raise", s, Invoked(w, "terraform output", TRUE), ctl,
                        "JSONDecodeError")})

(***************************************************************************)
(* The commands: plan assembly and the runner loop.                        *)
(***************************************************************************)
Commands == {"init", "bootstrap", "reset", "configure"}

Roles == {"CONTROL", "COMPUTE", "CONVERGED"}

(* commands/init.py: Role *)
\* a test for the CONTROL role alone
is_control_node_only_control(r) == r = "CONTROL"

is_control_node(r) == r # "COMPUTE"

is_compute_node(r) == r # "CONTROL"

is_converged_node(r) == r = "CONVERGED"

\* a bootstrap that appends the steps of a compute node first
Plan_compute_steps_first(c, r, sudo) ==
    IF c = "bootstrap"
    THEN (IF is_compute_node(r)
          THEN <<"UpdateIdentityServiceConfigStep",
                 "UpdateRabbitMQConfigStep", "UpdateNetworkConfigStep">>
          ELSE <<>>)
         \o (IF is_control_node(r)
             THEN <<"BootstrapJujuStep", "CreateModelStep", "DeployBundleStep">>
             ELSE <<>>)
    ELSE <<"ResetConfigStep">>

\* the plan each command assembles
Plan(c, r, sudo) ==
    CASE c = "init" ->
           IF is_control_node(r)
           THEN <<"EnsureJujuInstalled", "EnsureMicrok8sInstalled",
                  "EnableHighAvailability", "EnableDNS", "EnableStorage",
                  "EnableMetalLB">>
                \o (IF sudo THEN <<"EnableAccessToUser">> ELSE <<>>)
           ELSE <<>>
      [] c = "bootstrap" ->
           (IF is_control_node(r)
            THEN <<"BootstrapJujuStep", "CreateModelStep", "DeployBundleStep">>
            ELSE <<>>)
           \o (IF is_compute_node(r)
               THEN <<"UpdateIdentityServiceConfigStep",
                      "UpdateRabbitMQConfigStep", "UpdateNetworkConfigStep">>
               ELSE <<>>)
      [] c = "reset" ->
           (IF is_control_node(r) \/ is_converged_node(r)
            THEN <<"DestroyModelStep", "PurgeTerraformStateStep">> ELSE <<>>)
           \o (IF is_compute_node(r) \/ is_converged_node(r)
               THEN <<"ResetConfigStep">> ELSE <<>>)
      [] c = "configure" ->
           <<"InitializeTerraformStep", "ConfigureCloudStep", "UserOpenRCStep",
             "UpdateExternalNetworkConfigStep">>

\* the microk8s add-on a step class enables
Addon(step) ==
    CASE step = "EnableHighAvailability" -> "ha-cluster"
      [] step = "EnableDNS" -> "dns"
      [] step = "EnableStorage" -> "hostpath-storage"
      [] step = "EnableMetalLB" -> "metallb"

\* the snap a step class installs
SnapOf(step) ==
    CASE step = "EnsureJujuInstalled" -> "juju"
      [] step = "EnsureMicrok8sInstalled" -> "microk8s"

InstallSteps == {"EnsureJujuInstalled", "EnsureMicrok8sInstalled"}

AddonSteps ==
    {"EnableHighAvailability", "EnableDNS", "EnableStorage", "EnableMetalLB"}

\* the step object as its constructor leaves it
Construct(step) ==
    IF step = "EnableMetalLB"
    THEN [NewStep EXCEPT !.args = "10.20.20.1-10.20.20.2"]
    ELSE NewStep

\* step.is_skip()
IsSkip(step, s, w, ctl) ==
    CASE step \in InstallSteps -> InstallSnapStep_is_skip(SnapOf(step), s, w, ctl)
      [] step \in AddonSteps ->
           BaseCoreMicroK8sEnableStep_is_skip(Addon(step), s, w, ctl)
      [] step = "EnableAccessToUser" -> EnableAccessToUser_is_skip(s, w, ctl)
      [] step = "BootstrapJujuStep" -> BootstrapJujuStep_is_skip(s, w, ctl)
      [] step = "CreateModelStep" -> CreateModelStep_is_skip(s, w, ctl)
      [] step = "DeployBundleStep" -> DeployBundleStep_is_skip(s, w, ctl)
      [] step = "UpdateIdentityServiceConfigStep" ->
           UpdateIdentityServiceConfigStep_is_skip(s, w, ctl)
      [] step = "UpdateRabbitMQConfigStep" ->
           UpdateRabbitMQConfigStep_is_skip(s, w, ctl)
      [] step = "UpdateNetworkConfigStep" ->
           UpdateNetworkConfigStep_is_skip(s, w, ctl)
      [] step = "DestroyModelStep" -> DestroyModelStep_is_skip(s, w, ctl)
      [] step = "ResetConfigStep" -> ResetConfigStep_is_skip(s, w, ctl)
      [] step = "InitializeTerraformStep" ->
           InitializeTerraformStep_is_skip(s, w, ctl)
      [] step = "ConfigureCloudStep" -> ConfigureCloudStep_is_skip(s, w, ctl)
      [] step = "UserOpenRCStep" -> UserOpenRCStep_is_skip(s, w, ctl)
      [] OTHER -> BaseStep_is_skip(s, w, ctl)

\* step.has_prompts()
HasPrompts(step, s) ==
    CASE step \in InstallSteps -> InstallSnapStep_has_prompts(s)
      [] step \in {"EnableDNS", "EnableMetalLB"} -> TRUE
      [] step = "ConfigureCloudStep" -> ConfigureCloudStep_has_prompts(s)
      [] step = "UpdateExternalNetworkConfigStep" ->
           UpdateExternalNetworkConfigStep_has_prompts(s)
      [] OTHER -> BaseStep_has_prompts(s)

\* step.prompt(console)
Prompt(step, s, w, ctl) ==
    CASE step \in InstallSteps -> InstallSnapStep_prompt(SnapOf(step), s, w, ctl)
      [] step \in {"EnableDNS", "EnableMetalLB"} -> EnableAddon_prompt(s, w, ctl)
      [] step = "ConfigureCloudStep" -> ConfigureCloudStep_prompt(s, w, ctl)
      [] step = "UpdateExternalNetworkConfigStep" ->
           UpdateExternalNetworkConfigStep_prompt(s, w, ctl)
      [] OTHER -> BaseStep_prompt(s, w, ctl)

\* step.run()
Run(step, s, w, ctl) ==
    CASE step \in InstallSteps -> InstallSnapStep_run(SnapOf(step), s, w, ctl)
      [] step \in AddonSteps ->
           BaseCoreMicroK8sEnableStep_run(Addon(step), s, w, ctl)
      [] step = "EnableAccessToUser" -> EnableAccessToUser_run(s, w, ctl)
      [] step = "BootstrapJujuStep" -> BootstrapJujuStep_run(s, w, ctl)
      [] step = "CreateModelStep" -> CreateModelStep_run(s, w, ctl)
      [] step = "DeployBundleStep" -> DeployBundleStep_run(s, w, ctl)
      [] step = "UpdateIdentityServiceConfigStep" ->
           UpdateIdentityServiceConfigStep_run(s, w, ctl)
      [] step = "UpdateRabbitMQConfigStep" ->
           UpdateRabbitMQConfigStep_run(s, w, ctl)
      [] step = "UpdateNetworkConfigStep" ->
           UpdateNetworkConfigStep_run(s, w, ctl)
      [] step = "DestroyModelStep" -> DestroyModelStep_run(s, w, ctl)
      [] step = "PurgeTerraformStateStep" ->
           PurgeTerraformStateStep_run(s, w, ctl)
      [] step = "ResetConfigStep" -> ResetConfigStep_run(s, w, ctl)
      [] step = "InitializeTerraformStep" ->
           InitializeTerraformStep_run(s, w, ctl)
      [] step = "ConfigureCloudStep" -> ConfigureCloudStep_run(s, w, ctl)
      [] step = "UserOpenRCStep" -> UserOpenRCStep_run(s, w, ctl)
      [] step = "UpdateExternalNetworkConfigStep" ->
           UpdateExternalNetworkConfigStep_run(s, w, ctl)

\* an entry of the log: the runner called method op of step i of the plan
Event(op, i, o) == [op |-> op, i |-> i, ret |-> o.ret, msg |-> o.msg]

\* where the loop body starts for step i: configure asks has_prompts and
\* prompts first, the other commands start with is_skip
EnterStep(c, p, steps, i) ==
    IF i > Len(p) THEN "finish"
    ELSE IF c = "configure" /\ HasPrompts(p[i], steps[i]) THEN "prompt"
    ELSE "is_skip"

\* a loop body that prompts whether or not --auto was given
AfterSkipCheck_ignoring_auto(c, a, step, s) ==
    IF c = "init" /\ HasPrompts(step, s) THEN "prompt" ELSE "run"

\* where the loop body goes once is_skip has returned False
AfterSkipCheck(c, a, step, s) ==
    IF c = "init" /\ ~a /\ HasPrompts(step, s) THEN "prompt" ELSE "run"

\* a loop body that checks is_skip again after every prompt
AfterPrompt_rechecking(c) == "is_skip"

\* where the loop body goes once prompt has returned
AfterPrompt(c) == IF c = "configure" THEN "is_skip" ELSE "run"

\* a runner that does not look at the result type
Continues_whatever_the_result(result_type) == TRUE

\* whether the runner goes on with the next step after this result of run
Continues(result_type) == result_type # "FAILED"

InitRunner ==
    /\ cmd \in Commands
    /\ role \in Roles
    /\ auto \in (IF cmd = "init" THEN BOOLEAN ELSE {FALSE})
    /\ sudo_user \in (IF cmd = "init" THEN BOOLEAN ELSE {FALSE})
    /\ world \in Worlds(cmd)
    /\ plan = <<>> /\ idx = 1 /\ pc = "start" /\ st = <<>>
    /\ controller = NoneV /\ log = <<>> /\ err = NoneV /\ pass = 1
    /\ QuestionIdle
    /\ StoreIdle
    /\ WaitIdle
    /\ BankIdle

\* the command up to its plan loop: the privilege check, the pre-flight
\* checks of bootstrap, the admin credentials of configure, the plan
StartCommand ==
    /\ pc = "start"
    /\ LET p == Plan(cmd, role, sudo_user)
           steps == [i \in 1..Len(p) |-> Construct(p[i])] IN
         \/ /\ cmd \in {"init", "reset"}
            /\ plan' = p /\ st' = steps
            /\ pc' = EnterStep(cmd, p, steps, 1)
            /\ UNCHANGED <<err, controller, world>>
         \/ /\ cmd = "bootstrap"
            /\ \E ok \in {TRUE} \cup Faulty(world, {FALSE}) :
                 IF ok
                 THEN /\ plan' = p /\ st' = steps
                      /\ pc' = EnterStep(cmd, p, steps, 1)
                      /\ UNCHANGED err
                 ELSE /\ pc' = "exit" /\ err' = "pre-flight check failed"
                      /\ UNCHANGED <<plan, st>>
            /\ UNCHANGED <<controller, world>>
         \/ /\ cmd = "configure"
            /\ \E r \in JujuHelper_run_action(world, world.keystone, controller) :
                 /\ controller' = r.ctl
                 /\ IF Get(r.result, "return-code", 0) > 1
                    THEN /\ pc' = "exit"
                         /\ err' = "Unable to retrieve openrc from Keystone service"
                         /\ world' = [world EXCEPT !.configure_dir = TRUE]
                         /\ UNCHANGED <<plan, st>>
                    ELSE \* ConfigureCloudStep.__init__ loads the answers
                         /\ plan' = p /\ st' = steps
                         /\ pc' = EnterStep(cmd, p, steps, 1)
                         /\ world' = [Requested(world, "load_answers", NoneV)
                                        EXCEPT !.configure_dir = TRUE]
                         /\ UNCHANGED err
    /\ UNCHANGED <<cmd, role, auto, sudo_user, idx, log, pass>>
    /\ UNCHANGED askVars

\* the runner calls is_skip of the current step
IsSkipStep ==
    /\ pc = "is_skip"
    /\ \E o \in IsSkip(plan[idx], st[idx], world, controller) :
         LET steps == [st EXCEPT ![idx] = o.s] IN
           /\ log' = Append(log, Event("is_skip", idx, o))
           /\ st' = steps /\ world' = o.w /\ controller' = o.ctl
           /\ CASE o.ret = "raise" ->
                     pc' = "exit" /\ err' = o.msg /\ UNCHANGED idx
                [] o.ret = "true" ->
                     /\ idx' = idx + 1
                     /\ pc' = EnterStep(cmd, plan, steps, idx + 1)
                     /\ UNCHANGED err
                [] o.ret = "false" ->
                     /\ pc' = AfterSkipCheck(cmd, auto, plan[idx], o.s)
                     /\ UNCHANGED <<idx, err>>
    /\ UNCHANGED <<cmd, role, auto, sudo_user, plan, pass>>
    /\ UNCHANGED askVars

\* the runner calls prompt of the current step
PromptStep ==
    /\ pc = "prompt"
    /\ \E o \in Prompt(plan[idx], st[idx], world, controller) :
         /\ log' = Append(log, Event("prompt", idx, o))
         /\ st' = [st EXCEPT ![idx] = o.s]
         /\ world' = o.w /\ controller' = o.ctl
         /\ IF o.ret = "raise"
            THEN pc' = "exit" /\ err' = o.msg
            ELSE pc' = AfterPrompt(cmd) /\ UNCHANGED err
    /\ UNCHANGED <<cmd, role, auto, sudo_user, plan, idx, pass>>
    /\ UNCHANGED askVars

\* the runner calls run of the current step and looks at its Result
RunStep ==
    /\ pc = "run"
    /\ \E o \in Run(plan[idx], st[idx], [world EXCEPT !.invoked = <<>>],
                   controller) :
         LET steps == [st EXCEPT ![idx] = o.s] IN
           /\ log' = Append(log, Event("run", idx, o))
           /\ st' = steps /\ world' = o.w /\ controller' = o.ctl
           /\ IF o.ret = "raise" \/ ~Continues(o.ret)
              THEN pc' = "exit" /\ err' = o.msg /\ UNCHANGED idx
              ELSE /\ idx' = idx + 1
                   /\ pc' = EnterStep(cmd, plan, steps, idx + 1)
                   /\ UNCHANGED err
    /\ UNCHANGED <<cmd, role, auto, sudo_user, plan, pass>>
    /\ UNCHANGED askVars

\* the plan is exhausted: every command but init disconnects the controller
Finish ==
    /\ pc = "finish"
    /\ pc' = "exit"
    /\ IF cmd = "init"
       THEN UNCHANGED <<controller, err>>
       ELSE LET d == JujuHelper_disconnect_controller(controller) IN
              /\ controller' = d.ctl
              /\ err' = IF d.raised THEN d.msg ELSE err
    /\ UNCHANGED <<cmd, role, auto, sudo_user, plan, idx, st, world, log, pass>>
    /\ UNCHANGED askVars

\* the same command is run again, in a new process, against the world the
\* run before it left behind
Rerun ==
    /\ pc = "exit" /\ err = NoneV /\ cmd \in Commands
    /\ pass < MaxPasses
    /\ pass' = pass + 1
    /\ pc' = "start" /\ plan' = <<>> /\ st' = <<>> /\ idx' = 1
    /\ controller' = NoneV /\ log' = <<>>
    /\ world' = [world EXCEPT !.requests = <<>>, !.invoked = <<>>]
    /\ UNCHANGED <<cmd, role, auto, sudo_user, err>>
    /\ UNCHANGED askVars

Next ==
    \/ StartCommand
    \/ IsSkipStep
    \/ PromptStep
    \/ RunStep
    \/ Finish
    \/ Rerun

Spec == InitRunner /\ [][Next]_vars

(***************************************************************************)
(* Properties of the plan runners (checked under Spec).                    *)
(***************************************************************************)
LogIndex == 1..Len(log)

\* the positions in the log of the calls of method op of step i
Calls(op, i) == {k \in LogIndex : log[k].op = op /\ log[k].i = i}

\* C1: once the run of a step has returned FAILED, the runner invokes no
\* method of any step any more and the command has terminated with an
\* error carrying the message of that result.
C1_AbortOnFailure ==
    \A k \in LogIndex :
        (log[k].op = "run" /\ log[k].ret = "FAILED") =>
            /\ k = Len(log)
            /\ pc = "exit"
            /\ err = log[k].msg

\* a step that is not the last of its plan has failed and the command has
\* terminated with its message
C1_Witness ==
    \E k \in LogIndex :
        /\ log[k].op = "run" /\ log[k].ret = "FAILED"
        /\ log[k].i < Len(plan)
        /\ pc = "exit" /\ err = log[k].msg

\* C2: in every runner a step whose is_skip returned true has neither its
\* prompt nor its run invoked, and the skip check precedes any prompting:
\* every prompt of a step comes after the is_skip of that step.
C2_SkipCheckBeforePrompt ==
    \A i \in 1..Len(plan) :
        /\ (\E k \in Calls("is_skip", i) : log[k].ret = "true")
             => Calls("prompt", i) = {} /\ Calls("run", i) = {}
        /\ \A k \in Calls("prompt", i) : \E j \in Calls("is_skip", i) : j < k

\* C3: in the init runner the prompt of a step is invoked if and only if
\* its is_skip returned false, has_prompts() is true and --auto is not
\* given; at most once, after the is_skip and before the run of the step.
C3_InitPrompt ==
    cmd = "init" =>
        \A i \in 1..Len(plan) :
            LET wanted == /\ \E j \in Calls("is_skip", i) : log[j].ret = "false"
                          /\ HasPrompts(plan[i], st[i])
                          /\ ~auto
            IN  /\ Cardinality(Calls("prompt", i)) <= 1
                /\ Calls("prompt", i) # {} => wanted
                /\ wanted => \/ Calls("prompt", i) # {}
                              \/ (pc = "prompt" /\ idx = i)
                /\ \A k \in Calls("prompt", i) :
                      /\ \E j \in Calls("is_skip", i) : j < k
                      /\ \A r \in Calls("run", i) : k < r
                /\ auto => Calls("prompt", i) = {}

\* init has prompted for a step after its is_skip and has then run it
C3_Witness ==
    /\ cmd = "init"
    /\ \E i \in 1..Len(plan) :
         \E j \in Calls("is_skip", i), k \in Calls("prompt", i),
            r \in Calls("run", i) : j < k /\ k < r

\* C4: the runner goes through the plan in order: the first step it touches
\* is step 1, it moves from step i only to step i+1 and only once step i
\* was skipped or has returned a result, a step is run only after its
\* is_skip, and no step has its is_skip or its run invoked twice.
C4_StepsInOrder ==
    /\ log # <<>> => log[1].i = 1
    /\ \A k \in LogIndex : log[k].i \in 1..Len(plan)
    /\ \A k \in LogIndex \ {Len(log)} :
         \/ log[k + 1].i = log[k].i
         \/ /\ log[k + 1].i = log[k].i + 1
            /\ \/ (log[k].op = "is_skip" /\ log[k].ret = "true")
               \/ (log[k].op = "run" /\ log[k].ret = "COMPLETED")
    /\ \A i \in 1..Len(plan) :
         /\ Cardinality(Calls("is_skip", i)) <= 1
         /\ Cardinality(Calls("run", i)) <= 1
         /\ \A r \in Calls("run", i) : \E j \in Calls("is_skip", i) : j < r

\* the runner has run the third step of a plan after skipping or running
\* the two before it
C4_Witness ==
    /\ Calls("run", 3) # {}
    /\ Calls("is_skip", 1) # {} /\ Calls("is_skip", 2) # {}
    /\ Calls("run", 2) # {}

\* C5: when a command is run again after a run in which every step
\* completed or was skipped, against the world that run left (a world whose
\* external systems all answer), the is_skip of every step returns true and
\* no run is invoked.
C5_SecondRunSkipsEveryStep ==
    (pass >= 2 /\ ~world.faults) =>
        \A k \in LogIndex :
            /\ log[k].op # "run"
            /\ log[k].op = "is_skip" => log[k].ret # "false"

(***************************************************************************)
(* Properties of the answer resolution (checked under SpecAsk).            *)
(***************************************************************************)
AskCalls == 1..Len(calls)

\* C6: a Question whose preseed is set to any value, falsy ones included,
\* answers exactly that preseed and calls neither the question function
\* nor default_function.
C6_PreseedReturnedVerbatim ==
    \A i \in AskCalls :
        q.preseed # NoneV =>
            /\ calls[i].answer = q.preseed
            /\ calls[i].qf_calls = 0
            /\ calls[i].df_calls = 0

\* C7: without preseed the default offered by ask() is the first source
\* that is set (not None) in the chain previous_answer, new_default,
\* default_function(), default_value, whatever value the source holds, and
\* it is the answer when the user accepts it or accept_defaults is set.
C7_DefaultIsFirstSetSource ==
    \A i \in AskCalls :
        q.preseed = NoneV =>
            /\ IF q.previous_answer # NoneV
               THEN calls[i].default = q.previous_answer
               ELSE IF calls[i].new_default # NoneV
               THEN calls[i].default = calls[i].new_default
               ELSE IF q.default_function # NoneV
               THEN calls[i].default \in FunctionResults
               ELSE calls[i].default = q.default_value
            /\ (q.accept_defaults \/ calls[i].input = "<enter>")
                  => calls[i].answer = calls[i].default

\* C8 as stated: with no preseed and with new_default and previous_answer
\* set to different values, the default resolves to new_default (stated for
\* non-empty values, on which the two orders of precedence alone differ).
C8_OverrideBeatsPrevious ==
    \A i \in AskCalls :
        (/\ q.preseed = NoneV
         /\ Truthy(q.previous_answer)
         /\ Truthy(calls[i].new_default)
         /\ calls[i].new_default # q.previous_answer)
        => calls[i].default = calls[i].new_default

\* C8 amended: with no preseed and with new_default and previous_answer set
\* to different non-empty (truthy) values, the default resolves to the
\* previous answer, which is the answer when the default is accepted.
C8_PreviousBeatsOverride ==
    \A i \in AskCalls :
        (/\ q.preseed = NoneV
         /\ Truthy(q.previous_answer)
         /\ Truthy(calls[i].new_default)
         /\ calls[i].new_default # q.previous_answer)
        => /\ calls[i].default = q.previous_answer
           /\ (q.accept_defaults \/ calls[i].input = "<enter>")
                 => calls[i].answer = q.previous_answer

\* an ask("N") on a Question whose previous answer is "V" returned "V"
C8_Witness ==
    \E i \in AskCalls :
        /\ q.preseed = NoneV
        /\ q.previous_answer = "V"
        /\ calls[i].new_default = "N"
        /\ calls[i].answer = "V"

\* C9: with accept_defaults set, ask() never calls the interactive question
\* function and returns the resolved default (the preseed when one is
\* used); a Question with only default_value "demo" resolves to "demo".
C9_AcceptDefaultsNeverPrompts ==
    \A i \in AskCalls :
        q.accept_defaults =>
            /\ calls[i].qf_calls = 0
            /\ calls[i].input = "n/a"
            /\ calls[i].answer # "typed"
            /\ ~Truthy(q.preseed) => calls[i].answer = calls[i].default
            /\ (/\ q.preseed = NoneV
                /\ q.previous_answer = NoneV
                /\ calls[i].new_default = NoneV
                /\ q.default_function = NoneV
                /\ q.default_value = "demo")
               => calls[i].answer = "demo"

\* ask() on a Question with accept_defaults and only default_value "demo"
\* has returned "demo"
C9_Witness ==
    \E i \in AskCalls :
        /\ q.accept_defaults
        /\ q.preseed = NoneV
        /\ q.previous_answer = NoneV
        /\ q.default_function = NoneV
        /\ q.default_value = "demo"
        /\ calls[i].new_default = NoneV
        /\ calls[i].answer = "demo"
        /\ calls[i].qf_calls = 0

\* C10: one ask() calls default_function at most once; exactly once, its
\* result being the default, when neither preseed, previous_answer nor
\* new_default is set, and not at all when one of them is set.
C10_DefaultFunctionCalls ==
    \A i \in AskCalls :
        /\ calls[i].df_calls <= 1
        /\ (/\ q.default_function # NoneV
            /\ q.preseed = NoneV
            /\ q.previous_answer = NoneV
            /\ calls[i].new_default = NoneV)
           => /\ calls[i].df_calls = 1
              /\ calls[i].default \in FunctionResults
        /\ (\/ q.preseed # NoneV
            \/ q.previous_answer # NoneV
            \/ calls[i].new_default # NoneV)
           => calls[i].df_calls = 0

\* C11: after a first ask() on a Question, every later ask() on it returns
\* the value of the first and calls neither the question function nor
\* default_function again.
C11_AnswerCached ==
    \A i \in AskCalls :
        i > 1 =>
            /\ calls[i].answer = calls[1].answer
            /\ calls[i].qf_calls = 0
            /\ calls[i].df_calls = 0

(***************************************************************************)
(* Properties of the answer file (checked under SpecStore).                *)
(***************************************************************************)
\* the store S updated with M: M's keys with M's values, every other
\* section and key of S with its old value
Merged(S, M) ==
    [sec \in DOMAIN S \cup DOMAIN M |->
        IF sec \notin DOMAIN M THEN S[sec]
        ELSE IF sec \notin DOMAIN S THEN M[sec]
        ELSE [k \in DOMAIN S[sec] \cup DOMAIN M[sec] |->
                 IF k \in DOMAIN M[sec] THEN M[sec][k] ELSE S[sec][k]]]

\* C12: after write_answers(M) on a store holding S, the store holds every
\* section and key of S that is absent from M with its old value and every
\* key of M with M's value.
C12_WriteMerges ==
    fsop.op = "write_answers" =>
        load_answers(file) = Merged(load_answers(fsop.before), fsop.arg)

\* C13: load_answers after write_answers(x) returns a mapping equal to x;
\* load_answers on a file that does not exist returns the empty mapping and
\* does not create the file.
C13_RoundTrip ==
    /\ fsop.op = "write_answers" => load_answers(file) = fsop.arg
    /\ (fsop.op = "load_answers" /\ written.any)
          => fsop.result = written.answers
    /\ (fsop.op = "load_answers" /\ ~fsop.before.exists)
          => fsop.result = <<>> /\ ~file.exists

\* a mapping with a bool, a None and an int has been written and loaded
\* back
C13_Witness ==
    /\ fsop.op = "load_answers"
    /\ written.any
    /\ DOMAIN written.answers = {"user", "external_network"}
    /\ DOMAIN written.answers["user"] = {"username", "security_group_rules"}
    /\ DOMAIN written.answers["external_network"]
          = {"segmentation_id", "gateway"}
    /\ written.answers["external_network"]["gateway"] = PyNone
    /\ fsop.result = written.answers

(***************************************************************************)
(* Properties of the reconciliation steps of commands/ohv.py (checked      *)
(* under Spec, where bootstrap runs them on compute and converged nodes).  *)
(***************************************************************************)
ReconciliationSteps ==
    {"UpdateIdentityServiceConfigStep", "UpdateRabbitMQConfigStep",
     "UpdateNetworkConfigStep"}

\* the section of the hypervisor configuration a step reads and updates
Section(step) ==
    CASE step = "UpdateIdentityServiceConfigStep" -> "identity"
      [] step = "UpdateRabbitMQConfigStep" -> "rabbitmq"
      [] step = "UpdateNetworkConfigStep" -> "network"

\* for each field a step updates: which of its recorded action results
\* (n), and which key of it, is the source of the field, and whether the
\* value goes through encode_tls
Sources(step) ==
    CASE step = "UpdateIdentityServiceConfigStep" ->
           [auth_url |-> [n |-> 1, key |-> "public-endpoint", tls |-> FALSE],
            username |-> [n |-> 1, key |-> "username", tls |-> FALSE],
            password |-> [n |-> 1, key |-> "password", tls |-> FALSE],
            user_domain_name |->
                [n |-> 1, key |-> "user-domain-name", tls |-> FALSE],
            project_name |-> [n |-> 1, key |-> "project-name", tls |-> FALSE],
            project_domain_name |->
                [n |-> 1, key |-> "project-domain-name", tls |-> FALSE],
            region_name |-> [n |-> 1, key |-> "region", tls |-> FALSE]]
      [] step = "UpdateRabbitMQConfigStep" ->
           [url |-> [n |-> 1, key |-> "url", tls |-> FALSE]]
      [] step = "UpdateNetworkConfigStep" ->
           [ovn_sb_connection |-> [n |-> 1, key |-> "url", tls |-> FALSE],
            ovn_key |-> [n |-> 2, key |-> "private-key", tls |-> TRUE],
            ovn_cert |-> [n |-> 2, key |-> "certificate", tls |-> TRUE],
            ovn_cacert |-> [n |-> 2, key |-> "issuing-ca", tls |-> TRUE]]

\* the fields a step declares to update
DeclaredFields(step) == DOMAIN Sources(step)

\* the source returned a value for field f
SourceSet(step, f, action_results) ==
    LET src == Sources(step)[f] IN
      /\ Len(action_results) >= src.n
      /\ src.key \in DOMAIN action_results[src.n]

\* the value computed from the source for field f, None if there is none
SourceValue(step, f, action_results) ==
    LET src == Sources(step)[f] IN
      IF ~SourceSet(step, f, action_results) THEN NoneV
      ELSE IF src.tls THEN encode_tls(action_results[src.n][src.key])
      ELSE action_results[src.n][src.key]

\* the runner's last call was method op of a reconciliation step
LastCall(op) ==
    /\ Len(log) > 0
    /\ log[Len(log)].op = op
    /\ plan[log[Len(log)].i] \in ReconciliationSteps

LastStep == log[Len(log)].i

C15_StagedIsSourceValue ==
    /\ (LastCall("is_skip") /\ log[Len(log)].ret = "false") =>
          \A f \in DeclaredFields(plan[LastStep]) :
              st[LastStep].config[f]
                = SourceValue(plan[LastStep], f, st[LastStep].action_results)
    /\ (LastCall("run") /\ log[Len(log)].ret = "COMPLETED") =>
          \A f \in DeclaredFields(plan[LastStep]) :
              world.ohv[Section(plan[LastStep])][f]
                = SourceValue(plan[LastStep], f, st[LastStep].action_results)

\* C16: the fields of the fetched configuration that a reconciliation step
\* does not declare keep the value fetched from the target, in the
\* configuration is_skip stages and in the one run applies.
C16_UndeclaredFieldsKept ==
    [][\A step \in ReconciliationSteps :
         \A f \in DOMAIN world.ohv[Section(step)] \ DeclaredFields(step) :
            /\ (pc = "is_skip" /\ plan[idx] = step
                  /\ Len(st'[idx].action_results) > 0)
                  => st'[idx].config[f] = world.ohv[Section(step)][f]
            /\ (pc = "run" /\ plan[idx] = step)
                  => /\ world'.ohv[Section(step)][f] = world.ohv[Section(step)][f]
                     /\ st'[idx].config[f] = world.ohv[Section(step)][f]]_vars

\* the network step has applied new certificates to a target whose physnet
\* name and DNS server are not the default ones
C16_Witness ==
    /\ LastCall("run")
    /\ plan[LastStep] = "UpdateNetworkConfigStep"
    /\ log[Len(log)].ret = "COMPLETED"
    /\ world.ohv.network.ovn_cert # NoneV
    /\ world.ohv.network.physnet_name = "physnet2"
    /\ world.ohv.network.dns_servers = "10.0.0.1"

\* the external reads is_skip of a step makes: the fetch of the target's
\* configuration and the juju actions
Reads(step) ==
    CASE step = "UpdateIdentityServiceConfigStep" ->
           {"get_identity_config", "keystone get-service-account"}
      [] step = "UpdateRabbitMQConfigStep" ->
           {"get_rabbitmq_config", "rabbitmq get-service-account"}
      [] step = "UpdateNetworkConfigStep" ->
           {"get_network_config", "ovn-relay get-southbound-db-url",
            "vault generate-certificate"}

\* the update operation of the target a step calls
UpdateRequest(step) ==
    CASE step = "UpdateIdentityServiceConfigStep" -> "update_identity_config"
      [] step = "UpdateRabbitMQConfigStep" -> "update_rabbitmq_config"
      [] step = "UpdateNetworkConfigStep" -> "update_network_config"

\* how many times the current command run has made request req
Count(req) ==
    Cardinality({k \in 1..Len(world.requests) : world.requests[k].req = req})

\* C17: run of a reconciliation step issues no read to an external source:
\* in one plan run each read of a step (the fetch of the configuration and
\* each juju action) is made exactly once, by is_skip, and run leaves the
\* recorded action results as is_skip left them.
C17_RunDoesNotRead ==
    \A i \in 1..Len(plan) :
        plan[i] \in ReconciliationSteps =>
            /\ Calls("is_skip", i) = {}
                  => \A req \in Reads(plan[i]) : Count(req) = 0
            /\ (\E k \in LogIndex : /\ log[k].op = "is_skip" /\ log[k].i = i
                                    /\ log[k].ret # "raise")
                  => /\ \A req \in Reads(plan[i]) : Count(req) = 1
                     /\ Len(st[i].action_results) + 1
                            = Cardinality(Reads(plan[i]))

\* the network step has run to completion having made each of its three
\* reads once
C17_Witness ==
    /\ LastCall("run")
    /\ plan[LastStep] = "UpdateNetworkConfigStep"
    /\ log[Len(log)].ret = "COMPLETED"
    /\ \A req \in Reads("UpdateNetworkConfigStep") : Count(req) = 1
    /\ Count("update_network_config") = 1

\* C18: if an action result recorded by is_skip has a return-code greater
\* than 0, run returns FAILED and the update call on the target is not
\* made.
C18_AnyErrorCodeFails ==
    (/\ LastCall("run")
     /\ \E k \in 1..Len(st[LastStep].action_results) :
           /\ "return-code" \in DOMAIN st[LastStep].action_results[k]
           /\ st[LastStep].action_results[k]["return-code"] > 0)
    => /\ log[Len(log)].ret = "FAILED"
       /\ Count(UpdateRequest(plan[LastStep])) = 0

\* C19: when every recorded action result reports success, run calls the
\* update operation of the target exactly once, with the whole staged
\* configuration, and returns COMPLETED if the call returns, FAILED with
\* the text of the exception if it raises; no exception leaves run.
C19_SingleUpdateCall ==
    (/\ LastCall("run")
     /\ \A k \in 1..Len(st[LastStep].action_results) :
           Get(st[LastStep].action_results[k], "return-code", 1) = 0)
    => LET step == plan[LastStep]
           last == log[Len(log)] IN
         /\ Count(UpdateRequest(step)) = 1
         /\ world.requests[Len(world.requests)]
               = [req |-> UpdateRequest(step), config |-> st[LastStep].config]
         /\ last.ret \in {"COMPLETED", "FAILED"}
         /\ last.ret = "COMPLETED"
               => world.ohv[Section(step)] = st[LastStep].config
         /\ last.ret = "FAILED"
               => last.msg \in ExceptionTexts /\ err = last.msg

\* the update call of the RabbitMQ step raised and run returned FAILED with
\* the text of the exception
C19_Witness ==
    /\ LastCall("run")
    /\ plan[LastStep] = "UpdateRabbitMQConfigStep"
    /\ log[Len(log)].ret = "FAILED"
    /\ log[Len(log)].msg = "exception text"
    /\ Count("update_rabbitmq_config") = 1

\* C20: in is_skip of a reconciliation step, a declared field for which
\* the source returned no value while the target's current value is empty
\* counts as converged: is_skip returns, the field is not staged as a
\* change, and the step is skipped when no other field differs.
C20_BothEmptyIsConverged ==
    (LastCall("is_skip") /\ Len(st[LastStep].action_results) > 0) =>
        LET step == plan[LastStep]
            results == st[LastStep].action_results
            target == world.ohv[Section(step)]
            BothEmpty(f) == /\ ~SourceSet(step, f, results)
                            /\ target[f] \in {NoneV, ""}
        IN  \A f \in DeclaredFields(step) :
               BothEmpty(f) =>
                  /\ log[Len(log)].ret # "raise"
                  /\ st[LastStep].config[f] = target[f]
                  /\ (\A g \in DeclaredFields(step) \ {f} :
                         BothEmpty(g) \/ target[g] = SourceValue(step, g, results))
                        => log[Len(log)].ret = "true"

\* the state of the external systems a world holds: everything but the
\* records of the requests and invocations made in the current run
ExternalState(w) == [f \in DOMAIN w \ {"requests", "invoked"} |-> w[f]]

\* C21: is_skip and prompt of every step leave the state of every external
\* system (target configuration, control plane, certificate authority,
\* package daemon, files on disk) as it was, and a second call of is_skip
\* on the same step against the world the first one left returns the same
\* answer and leaves the same step state.
C21_SkipAndPromptChangeNothing ==
    [][/\ pc \in {"is_skip", "prompt"}
            => ExternalState(world') = ExternalState(world)
       /\ (pc = "is_skip" /\ ~world.faults)
            => \A o1 \in IsSkip(plan[idx], st[idx], world, controller) :
                 o1.ret # "raise" =>
                   \A o2 \in IsSkip(plan[idx], o1.s, o1.w, o1.ctl) :
                      o2.ret = o1.ret /\ o2.s = o1.s]_vars

C23_NoExceptionLeavesAStep ==
    \A k \in LogIndex :
        /\ log[k].ret # "raise"
        /\ log[k].op = "run"
              => log[k].ret \in {"COMPLETED", "FAILED", "SKIPPED"}

\* the latest method the runner called is method op, of any step
LastEvent(op) == Len(log) > 0 /\ log[Len(log)].op = op

\* the external commands and calls of the latest run that failed
FailedInvocations ==
    {k \in 1..Len(world.invoked) : ~world.invoked[k].ok}

\* how many times the latest run invoked the operation of invocation k
TimesInvoked(k) ==
    Cardinality({j \in 1..Len(world.invoked) :
                    world.invoked[j].op = world.invoked[k].op})

WaitOver == wt.pc \in {"returned", "raised", "done"}

\* C25: when the polling loop inside a step has timed out, run of the step
\* has still returned a Result: COMPLETED with the statuses gathered so far
\* for ModelStatusStep, FAILED for InstallSnapStep; no exception has left
\* run and the Result is of no other kind.
C25_TimeoutGivesCompletedOrFailed ==
    (wt.pc = "done" /\ wt.timed_out) =>
        /\ wt.caller = "InstallSnapStep.run" => wt.result.type = "FAILED"
        /\ wt.caller = "ModelStatusStep.run" =>
              /\ wt.result.type = "COMPLETED"
              /\ wt.result.message
                   = {<<app, wt.apps_status[app]>> : app \in DOMAIN wt.apps_status}
        /\ wt.caller \in {"InstallSnapStep.run", "ModelStatusStep.run"} =>
              wt.result.type \in {"COMPLETED", "FAILED"}

\* ModelStatusStep.run has returned COMPLETED after a timeout with one
\* application active and the other still waiting
C25_Witness ==
    /\ wt.pc = "done" /\ wt.timed_out
    /\ wt.caller = "ModelStatusStep.run"
    /\ wt.apps_status = ("keystone" :> "active" @@ "rabbitmq" :> "waiting")
    /\ wt.result.type = "COMPLETED"

\* C26: wait_until returns only after a poll has found the change in one of
\* the target statuses; when the time is over and no poll has found one it
\* raises TimeoutException, for one target status as for several; and it
\* ends after at most as many polls as the timeout has seconds.
C26_ReturnsOnTargetOrTimeoutException ==
    wt.fn = "wait_until" =>
        /\ (wt.pc = "returned" \/ (wt.pc = "done" /\ wt.exc = "none"))
              => /\ Len(wt.polls) > 0
                 /\ wt.polls[Len(wt.polls)] \in Elements(wt.targets)
        /\ (WaitOver /\ wt.timed_out)
              => /\ \A k \in 1..Len(wt.polls) :
                       wt.polls[k] \notin Elements(wt.targets)
                 /\ wt.exc = "TimeoutException"
        /\ Len(wt.polls) <= wt.timeout

PromptReturned(l) == Len(l) > 0 /\ l[Len(l)].op = "prompt" /\ l[Len(l)].ret = "ok"

\* how many times the requests of w read the answer file
StoreReads(w) ==
    Cardinality({k \in 1..Len(w.requests) :
                   w.requests[k].req \in {"load_answers", "open answer file"}})

\* how many times the requests of w wrote the answer file
StoreWrites(w) ==
    Cardinality({k \in 1..Len(w.requests) :
                   w.requests[k].req = "write_answers"})

\* C28 as stated: in one configure run the answer file is read once, by
\* the prompt of the step that asks, and written once, by that prompt once
\* its questions are resolved; nothing else writes it, and every prompt
\* that returns has read it once and written it once.
C28_ReadOnceWriteOnce ==
    /\ [](cmd = "configure" => StoreReads(world) <= 1 /\ StoreWrites(world) <= 1)
    /\ [][cmd = "configure" =>
            /\ StoreReads(world') # StoreReads(world) => pc = "prompt"
            /\ StoreWrites(world') # StoreWrites(world) => pc = "prompt"
            /\ (pc = "prompt" /\ PromptReturned(log'))
                  => /\ StoreReads(world') = StoreReads(world) + 1
                     /\ StoreWrites(world') = StoreWrites(world) + 1]_vars

\* C29: run of a step that has prompts, called on a step whose prompt was
\* never called, in a world whose external systems all answer, completes:
\* it does not fail and leaves a defined configuration in the target.
C29_RunWithoutPromptCompletes ==
    ~world.faults =>
        \A i \in 1..Len(plan) :
            (HasPrompts(plan[i], st[i]) /\ Calls("prompt", i) = {}) =>
                \A o \in Run(plan[i], st[i], world, controller) :
                    /\ o.ret = "COMPLETED"
                    /\ o.w.ohv.network # NoConfig

(***************************************************************************)
(* Properties of the node roles (checked under Spec).                      *)
(***************************************************************************)
\* C30: the role of the node is a control node exactly when it is CONTROL
\* or CONVERGED, a compute node exactly when it is COMPUTE or CONVERGED,
\* converged exactly when it is both, and always one of the two at least.
C30_RolePredicates ==
    /\ is_control_node(role) <=> role \in {"CONTROL", "CONVERGED"}
    /\ is_compute_node(role) <=> role \in {"COMPUTE", "CONVERGED"}
    /\ is_converged_node(role)
          <=> (is_control_node(role) /\ is_compute_node(role))
    /\ is_control_node(role) \/ is_compute_node(role)

\* init has assembled the plan of a converged node, which is a control
\* node and a compute node
C30_Witness ==
    /\ cmd = "init" /\ role = "CONVERGED" /\ Len(plan) > 0
    /\ is_converged_node(role)
    /\ is_control_node(role) /\ is_compute_node(role)

(***************************************************************************)
(* Properties of the bootstrap plan (checked under Spec).                  *)
(***************************************************************************)
\* the steps of bootstrap that set up the control plane
ControlPlaneSteps == {"BootstrapJujuStep", "CreateModelStep", "DeployBundleStep"}

\* by entry k of the log, the runner has seen step class step skipped or
\* completed
SettledBefore(step, k) ==
    \E j \in 1..(k - 1) :
        /\ plan[log[j].i] = step
        /\ \/ log[j].op = "is_skip" /\ log[j].ret = "true"
           \/ log[j].op = "run" /\ log[j].ret = "COMPLETED"

C32_MappingsAppliedToMembers ==
    bank.pc \in {"constructed", "raised"} =>
        /\ bank.pc = "constructed"
        /\ \A k \in DOMAIN BankQuestions :
              /\ bank.questions[k].preseed
                    = Get(OrEmptyDict(bank.preseed), k, NoneV)
              /\ bank.questions[k].previous_answer
                    = Get(OrEmptyDict(bank.previous_answers), k, NoneV)

(***************************************************************************)
(* Properties of the termination of the waits (checked under               *)
(* SpecWaitFair).                                                          *)
(***************************************************************************)
\* C33: every wait made from is_skip or run ends, and ends within its
\* timeout: get_model_status returns without an exception only once every
\* application was seen active or the time is over, and with timeout 0
\* after one poll exactly; wait_until and get_model_status make no poll
\* once their timeout has passed; and every wait, that of deploy_bundle for
\* active units included, is over at some point.
C33_EveryWaitEndsWithinTimeout ==
    /\ [](wt.fn = "get_model_status" =>
            /\ (wt.pc = "returned" /\ wt.exc = "none")
                  => /\ \/ wt.apps_active = Applications
                        \/ wt.elapsed > wt.timeout
                     /\ wt.timeout = 0 => Len(wt.polls) = 1
            /\ wt.timeout = 0 => Len(wt.polls) <= 1
            /\ wt.elapsed <= wt.timeout + MaxDelay)
    /\ [](wt.fn = "wait_until" =>
            /\ wt.elapsed < wt.timeout + MaxDelay
            /\ Len(wt.polls) <= wt.timeout)
    /\ <>WaitOver

(***************************************************************************)
(* Properties of failed reads in the reconciliation steps (checked under   *)
(* Spec).                                                                  *)
(***************************************************************************)
\* the result of an action that failed: nothing came back, or a
\* return-code that is not 0
FailedRead(action_result) ==
    \/ action_result = EmptyDict
    \/ Get(action_result, "return-code", 0) # 0

\* the latest call was made on a reconciliation step that holds the result
\* of a failed read
HoldsFailedRead ==
    \E k \in 1..Len(st[LastStep].action_results) :
        FailedRead(st[LastStep].action_results[k])

\* C34: when an action read made by is_skip of a reconciliation step has
\* failed, by an error return-code or an empty result, is_skip has returned
\* false, so that run is called next, and run of a step that holds such a
\* result has returned FAILED.
C34_FailedReadReachesRunAndFails ==
    /\ (LastCall("is_skip") /\ HoldsFailedRead)
          => log[Len(log)].ret = "false"
    /\ (LastCall("run") /\ HoldsFailedRead)
          => log[Len(log)].ret = "FAILED"

(***************************************************************************)
(* Properties of InstallSnapStep within init (checked under Spec).         *)
(***************************************************************************)
\* C35: run of an InstallSnapStep makes the install request only when its
\* is_skip returned false having found no installed snap of that name, and
\* when --auto was given or the prompt of the step returned, the user
\* having confirmed; it makes at most one request, and a step has at most
\* one run; no install request is made by anything else, hence none once
\* the user declined and the command ended, and none for a step that
\* is_skip reported as sufficiently installed, which has no run at all.
C35_InstallOnlyWhenAbsentAndConfirmed ==
    /\ [](\A i \in 1..Len(plan) :
            plan[i] \in InstallSteps =>
              /\ Cardinality(Calls("run", i)) <= 1
              /\ \A k \in Calls("prompt", i) :
                    log[k].ret = "raise"
                       => /\ k = Len(log) /\ pc = "exit"
                          /\ Calls("run", i) = {}
              /\ \A k \in Calls("is_skip", i) :
                    log[k].ret = "true" => Calls("run", i) = {})
    /\ [][IF pc = "run" /\ plan[idx] \in InstallSteps
          THEN /\ world'.installs \in {world.installs, world.installs + 1}
               /\ world'.installs # world.installs
                     => /\ world[SnapOf(plan[idx])] = "absent"
                        /\ \E k \in Calls("is_skip", idx) : log[k].ret = "false"
                        /\ \/ auto
                           \/ \E k \in Calls("prompt", idx) : log[k].ret = "ok"
          ELSE world'.installs = world.installs]_vars

\* the user confirmed the installation of a snap that was absent and run
\* has made the one install request
C35_Witness ==
    /\ cmd = "init" /\ ~auto
    /\ LastEvent("run") /\ plan[LastStep] = "EnsureJujuInstalled"
    /\ \E k \in Calls("prompt", LastStep) : log[k].ret = "ok"
    /\ world.invoked = <<[op |-> "snap install", ok |-> TRUE]>>
    /\ world.installs = 1
    /\ world.juju = "ok"

\* C36: when run of an InstallSnapStep has returned COMPLETED the snap is
\* installed: an instance was installed already and run requested nothing,
\* or the change of its install request has reached Done; when the change
\* of the request has ended in Error, run has returned FAILED.
C36_CompletedMeansInstalled ==
    (LastEvent("run") /\ plan[LastStep] \in InstallSteps) =>
        /\ log[Len(log)].ret = "COMPLETED"
              => /\ world[SnapOf(plan[LastStep])] # "absent"
                 /\ world.invoked = <<>> \/ world.change = "Done"
        /\ (world.invoked # <<>> /\ world.change = "Error")
              => log[Len(log)].ret = "FAILED"

(***************************************************************************)
(* Properties of the microk8s add-on steps within init (checked under      *)
(* Spec).                                                                  *)
(***************************************************************************)
\* C37: run of a step that enables a microk8s add-on has invoked the
\* enable command once exactly; it has returned COMPLETED when the command
\* succeeded, or when it failed and the status query made after a "timed
\* out waiting" failure reported the add-on as enabled, and in no other
\* case; in every other case it has returned FAILED with the error message
\* of the add-on.
C37_EnableOnceCompletedOrFailed ==
    (LastEvent("run") /\ plan[LastStep] \in AddonSteps) =>
        /\ world.invoked[1].op = "microk8s enable"
        /\ TimesInvoked(1) = 1
        /\ log[Len(log)].ret \in {"COMPLETED", "FAILED"}
        /\ log[Len(log)].ret = "COMPLETED"
              <=> \/ world.invoked[1].ok
                  \/ /\ Len(world.invoked) = 2
                     /\ world.invoked[2] = [op |-> "microk8s status", ok |-> TRUE]
                     /\ Addon(plan[LastStep]) \in world.addons
        /\ log[Len(log)].ret = "FAILED"
              => log[Len(log)].msg = "Error enabling microk8s add-on"

\* the enable command of the dns add-on failed, the status query found the
\* add-on enabled all the same and run returned COMPLETED
C37_Witness ==
    /\ LastEvent("run") /\ plan[LastStep] = "EnableDNS"
    /\ world.invoked = <<[op |-> "microk8s enable", ok |-> FALSE],
                         [op |-> "microk8s status", ok |-> TRUE]>>
    /\ "dns" \in world.addons
    /\ log[Len(log)].ret = "COMPLETED"

(***************************************************************************)
(* Properties of the controller connection of JujuHelper (checked under    *)
(* Spec).                                                                  *)
(***************************************************************************)
\* the commands that call disconnect_controller once their plan is done
DisconnectingCommands == {"bootstrap", "reset", "configure"}

\* C38: when bootstrap, reset or configure, for any role, comes to call
\* disconnect_controller, a controller connection was established earlier
\* in the run: the controller of the JujuHelper is set and connected.
C38_DisconnectOnlyAfterConnect ==
    (cmd \in DisconnectingCommands /\ pc = "finish") =>
        controller = "connected"

\* C39: when a command run that connected to the controller has ended, by
\* the end of its plan or by a step that returned FAILED, it has
\* disconnected from the controller.
C39_DisconnectedAtExit ==
    (cmd \in DisconnectingCommands /\ pc = "exit") =>
        controller # "connected"

\* the steps whose is_skip calls a method of JujuHelper
JujuSkipSteps ==
    {"CreateModelStep", "DeployBundleStep", "DestroyModelStep"}
    \cup ReconciliationSteps

\* the steps whose run calls a method of JujuHelper
JujuRunSteps == {"CreateModelStep", "DeployBundleStep", "DestroyModelStep"}

\* the runner is about to call a step method that calls a JujuHelper method
JujuCallNext ==
    \/ pc = "is_skip" /\ plan[idx] \in JujuSkipSteps
    \/ pc = "run" /\ plan[idx] \in JujuRunSteps

\* C40: a method of JujuHelper issues its controller operation only on a
\* controller whose connect() succeeded; when an earlier connect attempt
\* failed the method attempts to connect again, and when an earlier one
\* succeeded it attempts no further connect.
C40_OperationsOnConnectedControllerOnly ==
    JujuCallNext =>
        \A c \in JujuHelper_connect(world, controller) :
            /\ c.issued => c.ok
            /\ controller = "unconnected" => c.attempted
            /\ controller = "connected" => ~c.attempted

====
